---- MODULE Spec2Model ----
(***************************************************************************)
(* Gene transformation and concatenation engine of iTaxoTools/concatenator *)
(* (library/model.py, library/operators.py, library/codons.py,             *)
(* library/types.py, library/utils.py, library/file_writers.py,            *)
(* library/partition_finder.py, library/operations.py).                    *)
(*                                                                         *)
(* Text is modelled as a sequence of one-character strings, a pandas       *)
(* Series as a sequence of rows [key, seq], a GeneSeries as a record.      *)
(*                                                                         *)
(* Specifications:                                                         *)
(*   SpecOps        a gene read row by row, reversed and padded            *)
(*   SpecCharsets   a stream of genes through OpExtractCharsets            *)
(*   SpecFrame      add_gene calls on one GeneDataFrame                    *)
(*   SpecJoin       a stream of genes folded by _join_any                  *)
(*   SpecDetect     the stop-codon and reading-frame detection functions   *)
(*   SpecRoundTrip  a gene detected, reversed, padded and detected again   *)
(*   SpecFinal      genes of unknown reading frame through detection       *)
(*   SpecSupplied   genes of a supplied reading frame through detection    *)
(*   SpecPipe       a stream piped through two operators                   *)
(*   SpecOperators  a gene held by two consumers, piped through operators  *)
(*   SpecValid      a stream piped through OpCheckValid                    *)
(*   SpecPartition  charsets extracted and split into codon sets and data  *)
(*                  blocks                                                 *)
(*   SpecLoad       the data file of the genetic codes loaded at import    *)
(*   SpecContainer  a stream written by a container writer                 *)
(*   SpecUnframed   add_gene calls with genes without a reading frame      *)
(*   SpecWriter     a writer with custom filters, called once              *)
(*   SpecPipeline   a call of run_pipeline                                 *)
(* Of the genetic-code tables, 1 and 2 are modelled.                       *)
(***************************************************************************)
EXTENDS Integers, Sequences, FiniteSets, TLC

VARIABLES
    gene,           \* the GeneSeries flowing through the operators
    prev,           \* the GeneSeries handed to the operator applied last
    orig,           \* the GeneSeries as produced by the reader
    padding_arg,    \* the padding the last OpPadReadingFrames was configured with
    exc_args,       \* the frames the exception raised by detection carries
    detected,       \* the GeneSeries as OpDetectReadingFrame first returned it
    pc,             \* position of the pipeline
    err,            \* name of the exception raised, "" when none
    charsets,       \* OpExtractCharsets.charsets
    cursor,         \* OpExtractCharsets.cursor
    passed,         \* the genes the OpExtractCharsets was called with, in order
    yielded,        \* the genes it returned, in order
    dataframe,      \* GeneDataFrame.dataframe
    genes_,         \* GeneDataFrame._genes, in insertion order
    calls,          \* the add_gene calls made so far, with their outcomes
    all_,           \* _join_any: the accumulator `all`, [columns, rows]
    all_keys,       \* _join_any: the OrderedSet all_keys
    gdf,            \* _join_any: the GeneDataFrame it returns
    pulled,         \* _join_any: the genes pulled from the stream, in order
    join_pc,        \* _join_any: "start", "folding" or "joined"
    sequence,       \* the sequence handed to the detection functions
    gc_table,       \* the genetic code they were called with, 0 for Unknown
    found,          \* the stops reported: [forward, reverse]
    combinations,   \* result of detect_reading_combinations
    frames,         \* result of detect_reading_frame
    det_pc,         \* "input" or "detected"
    upstream,       \* GeneStream: the genes of the source stream, in order
    drops,          \* the genes operator a and operator b return None for
    taken,          \* how many genes were pulled from the source stream
    events,         \* the operator calls made so far, in order
    item,           \* the gene a.iter yielded last
    results,        \* the genes the piped stream yielded, in order
    asked,          \* how many times next() was called on the piped stream
    control,        \* who runs: "unpiped", "consumer", "a", "b", "stopped";
                    \* with OpCheckValid: "checking", "raised" or "stopped"
    heap,           \* the GeneSeries and pandas Series objects allocated so far
    arg,            \* id of the object the last operator was called with
    arg_before,     \* that object as it was when the operator was called
    held_before,    \* the gene of the reader as it was when produced
    returned,       \* id of the object the last operator returned, 0 for None
    applied,        \* names of the operators called so far, in order
    memory,         \* OpCheckDuplicates._memory of the OpCheckValid of a stream
    partition,      \* the codon sets a writer got for each charset, in order
    data_blocks,    \* the data blocks of the PartitionFinder configuration written
    genetic_codes_json, \* the content of the data file genetic_codes.json
    imported,       \* [state, ids]: whether codons was imported, and the tables loaded
    params,         \* the parameters of the container writer called
    piped,          \* the genes that came out of the writer's filters
    data,           \* the concatenated rows handed to the alignment file
    write_pc,       \* where the call of the writer stands
    writer,         \* the writer get_writer returned
    through,        \* the filter functions the stream was passed through, in order
    pipeline,       \* the number of operations and the capacity of an OS pipe
    source,         \* the chunks of the input file
    pipes,          \* the chunks held by each OS pipe between two operations
    sink,           \* the chunks written to the output file
    current,        \* the operation that runs and how much of the input file was read
    closed,         \* the files closed so far
    run_pc          \* where the call of run_pipeline stands

geneVars == <<gene, prev, orig, detected, padding_arg, exc_args, pc>>
charsetVars == <<charsets, cursor, passed, yielded>>
frameVars == <<dataframe, genes_, calls>>
joinVars == <<all_, all_keys, gdf, pulled, join_pc>>
detectVars == <<sequence, gc_table, found, combinations, frames, det_pc>>
pipeVars == <<upstream, drops, taken, events, item, results, asked, control>>
heapVars == <<heap, arg, arg_before, held_before, returned, applied>>
validVars == <<memory>>
partitionVars == <<partition, data_blocks>>
loadVars == <<genetic_codes_json, imported>>
containerVars == <<params, piped, data, write_pc>>
writerVars == <<writer, through>>
pipelineVars == <<pipeline, source, pipes, sink, current, closed, run_pc>>

vars == <<geneVars, err, charsetVars, frameVars, joinVars, detectVars, pipeVars, heapVars, validVars, partitionVars, loadVars, containerVars, writerVars, pipelineVars>>

\* what the actions of one component leave alone
notPipeline == <<geneVars, charsetVars, frameVars, joinVars, detectVars, pipeVars, heapVars, validVars, partitionVars, loadVars, containerVars, writerVars>>
notWriter == <<geneVars, charsetVars, frameVars, joinVars, detectVars, pipeVars, heapVars, validVars, partitionVars, loadVars, containerVars, pipelineVars>>
notContainer == <<geneVars, joinVars, detectVars, pipeVars, heapVars, partitionVars, loadVars, writerVars, pipelineVars>>
notLoad == <<geneVars, charsetVars, frameVars, joinVars, detectVars, pipeVars, heapVars, validVars, partitionVars, containerVars, writerVars, pipelineVars>>
notGene == <<charsetVars, frameVars, joinVars, detectVars, pipeVars, heapVars, validVars, partitionVars, loadVars, containerVars, writerVars, pipelineVars>>
notCharset == <<geneVars, frameVars, joinVars, detectVars, pipeVars, heapVars, validVars, partitionVars, loadVars, containerVars, writerVars, pipelineVars>>
notFrame == <<geneVars, charsetVars, joinVars, detectVars, pipeVars, heapVars, validVars, partitionVars, loadVars, containerVars, writerVars, pipelineVars>>
notJoin == <<geneVars, charsetVars, frameVars, detectVars, pipeVars, heapVars, validVars, partitionVars, loadVars, containerVars, writerVars, pipelineVars>>
notDetect == <<geneVars, charsetVars, frameVars, joinVars, pipeVars, heapVars, validVars, partitionVars, loadVars, containerVars, writerVars, pipelineVars>>
notHeap == <<geneVars, charsetVars, frameVars, joinVars, detectVars, pipeVars, validVars, partitionVars, loadVars, containerVars, writerVars, pipelineVars>>
notPartition == <<geneVars, frameVars, joinVars, detectVars, pipeVars, heapVars, validVars, loadVars, containerVars, writerVars, pipelineVars>>
notValid == <<geneVars, charsetVars, frameVars, joinVars, detectVars, heapVars, partitionVars, loadVars, containerVars, writerVars, pipelineVars>>
notPipe == <<geneVars, charsetVars, frameVars, joinVars, detectVars, heapVars, validVars, partitionVars, loadVars, containerVars, writerVars, pipelineVars>>

-----------------------------------------------------------------------------
(* Bounds of the model                                                     *)

\* most sequences (rows) in a gene built for the operators
MaxRows == 2
\* most bases in all the sequences of a gene built for the operators
MaxBases == 2
\* most genes in a stream
MaxGenes == 2
\* longest sequence of a gene in a stream sent through OpExtractCharsets
MaxGeneLen == 2
\* most add_gene calls on one GeneDataFrame
MaxAdds == 3
\* most genes in a stream folded by _join_any
MaxJoined == 3
\* longest sequence handed to the detection functions
MaxSeqLen == 9
\* longest sequence of the gene sent through detection, reversal and padding
MaxCodingLen == 14
\* most genes of a piped stream
MaxStream == 3
\* most sequences of a gene handed to OpDetectReadingFrame
MaxFinalRows == 2
\* most bases of such a gene when its reading frame is unknown
MaxFinalBases == 5
\* most bases of such a gene when its reading frame is supplied
MaxSuppliedBases == 6
\* most operators a gene held by two consumers is piped through
MaxCalls == 2
\* longest gene of a stream a partition is written for
MaxPartitionLen == 4
\* most tables in the data file genetic_codes.json
MaxTables == 2
\* longest sequence detection runs on after the data file was loaded
MaxLoadedLen == 3
\* most custom filters appended to the filters of a writer
MaxCustomFilters == 2
\* most operations in a pipeline
MaxOperations == 3
\* most chunks in the input file of a pipeline
MaxInput == 3
\* most chunks an OS pipe may hold
MaxCapacity == 2

-----------------------------------------------------------------------------
(* Text helpers                                                            *)

Abs(n) == IF n < 0 THEN -n ELSE n

Min(a, b) == IF a < b THEN a ELSE b
Max(a, b) == IF a < b THEN b ELSE a

Reversed(s) == [i \in 1..Len(s) |-> s[Len(s) + 1 - i]]

\* n copies of the one character ch
Repeat(ch, n) == [i \in 1..n |-> ch]

\* str.maketrans('ACGTacgt', 'TGCAtgca')
TranslationFrom == <<"A", "C", "G", "T", "a", "c", "g", "t">>
TranslationTo == <<"T", "G", "C", "A", "t", "g", "c", "a">>

Translate(ch) ==
    IF \E i \in 1..Len(TranslationFrom) : TranslationFrom[i] = ch
    THEN TranslationTo[CHOOSE i \in 1..Len(TranslationFrom) : TranslationFrom[i] = ch]
    ELSE ch

\* mutant: the sequence is complemented but not reversed
reverse_complement_unreversed(nucleotides) ==
    [i \in 1..Len(nucleotides) |-> Translate(nucleotides[i])]

\* utils.reverse_complement
reverse_complement(nucleotides) ==
    LET reversed == Reversed(nucleotides)
    IN  [i \in 1..Len(reversed) |-> Translate(reversed[i])]

-----------------------------------------------------------------------------
(* GeneSeries                                                              *)

Frames == {-3, -2, -1, 1, 2, 3}
ReadingFrames == Frames \cup {0}

\* GeneSeries.defaults
DefaultCodonNames == <<"**_1st", "**_2nd", "**_3rd">>
DefaultMissing == <<"N", "n", "?">>
DefaultGap == <<"-">>

\* GeneSeries.__init__
GeneSeries(name, series, genetic_code, reading_frame, missing) ==
    [name |-> name, series |-> series, genetic_code |-> genetic_code,
     reading_frame |-> reading_frame, codon_names |-> DefaultCodonNames,
     missing |-> missing, gap |-> DefaultGap]

\* the gene with the sequences of its rows replaced by seqs, keys kept
\* (the result of pandas Series.map / Series.apply)
WithSeqs(g, seqs) ==
    [g EXCEPT !.series = [i \in 1..Len(g.series) |->
        [key |-> g.series[i].key, seq |-> seqs[i]]]]

-----------------------------------------------------------------------------
(* Operators (operators.py)                                                *)

\* OpReverseComplement.call
OpReverseComplement(g) ==
    WithSeqs(g, [i \in 1..Len(g.series) |-> reverse_complement(g.series[i].seq)])

\* OpReverseNegativeReadingFrames.call
OpReverseNegativeReadingFrames(g) ==
    IF g.reading_frame >= 0
    THEN g
    ELSE OpReverseComplement([g EXCEPT !.reading_frame = -g.reading_frame])

\* OpPadReadingFrames.lengths
PadLengths(reading_frame) == IF reading_frame = 2 THEN 2 ELSE 1

\* OpPadReadingFrames.pad_left / pad_right
pad_left(seq, pad) == pad \o seq
pad_right(seq, pad) == seq \o pad

\* mutant: the padding always goes in front
OpPadReadingFrames_left(padding, g) ==
    IF g.reading_frame \in {0, 1, -1}
    THEN g
    ELSE LET reading_frame == Abs(g.reading_frame)
             ch == IF padding # "" THEN padding
                   ELSE IF \E i \in 1..Len(g.missing) : g.missing[i] = "?"
                        THEN "?" ELSE g.missing[1]
             pad == Repeat(ch, PadLengths(reading_frame))
             padded == WithSeqs(g, [i \in 1..Len(g.series) |->
                                        pad_left(g.series[i].seq, pad)])
             sign == 1 - 2 * (IF g.reading_frame < 0 THEN 1 ELSE 0)
         IN  [padded EXCEPT !.reading_frame = sign]

\* OpPadReadingFrames.call, configured with `padding` ("" or one character)
OpPadReadingFrames(padding, g) ==
    IF g.reading_frame \in {0, 1, -1}
    THEN g
    ELSE LET reading_frame == Abs(g.reading_frame)
             ch == IF padding # "" THEN padding
                   ELSE IF \E i \in 1..Len(g.missing) : g.missing[i] = "?"
                        THEN "?" ELSE g.missing[1]
             pad == Repeat(ch, PadLengths(reading_frame))
             padded == WithSeqs(g, [i \in 1..Len(g.series) |->
                            IF g.reading_frame > 0
                            THEN pad_left(g.series[i].seq, pad)
                            ELSE pad_right(g.series[i].seq, pad)])
             sign == 1 - 2 * (IF g.reading_frame < 0 THEN 1 ELSE 0)
         IN  [padded EXCEPT !.reading_frame = sign]

-----------------------------------------------------------------------------
(* Reading-frame detection (codons.py)                                     *)
(* A codon is a text of three characters; a reported stop is a pair        *)
(* <<codon, frame>>; a reading combination is a pair <<table, frame>>.     *)

\* the genetic-code tables loaded: 1 (Standard), 2 (Vertebrate Mitochondrial)
TABLE_SET == {1, 2}

\* _GeneticCodeDescription.stops: the codons marked "*" in the table
Stops(gc) ==
    CASE gc = 1 -> {<<"T", "A", "A">>, <<"T", "A", "G">>, <<"T", "G", "A">>}
      [] gc = 2 -> {<<"T", "A", "A">>, <<"T", "A", "G">>, <<"A", "G", "A">>, <<"A", "G", "G">>}
      [] OTHER -> {}

\* STOP_CODONS: codon -> the tables it is a stop codon of (a DefaultDict)
STOP_CODONS(codon) == {gc \in TABLE_SET : codon \in Stops(gc)}

STOP_CODONS_SET == UNION {Stops(gc) : gc \in TABLE_SET}

\* regex.IGNORECASE
IgnoreCase(text) ==
    [i \in 1..Len(text) |->
        CASE text[i] = "a" -> "A" [] text[i] = "c" -> "C"
          [] text[i] = "g" -> "G" [] text[i] = "t" -> "T"
          [] OTHER -> text[i]]

\* stops_regex.finditer(sequence, overlapped=True): the starts of the matches
finditer(codons, text) ==
    {start \in 0..(Len(text) - 3) :
        IgnoreCase(SubSeq(text, start + 1, start + 3)) \in codons}

\* stop_match.group()
group(text, start) == SubSeq(text, start + 1, start + 3)

\* mutant: a match is skipped when it starts within the last 6 bases
skipped_in_the_end_6(text, start) == Len(text) - start < 7

\* detect_stop_codons: `if sequence_length - stop_match.start() < 6: continue`
skipped_in_the_end(text, start) == Len(text) - start < 6

\* detect_reverse_stop_codons: `if stop_match.start() < 3: continue`
skipped_in_the_beginning(start) == start < 3

\* the starts of the matches detect_stop_codons yields for
forward_starts(text, stop_codons) ==
    {start \in finditer(stop_codons, text) : ~skipped_in_the_end(text, start)}

\* the starts of the matches detect_reverse_stop_codons yields for
reverse_starts(text, stop_codons) ==
    {start \in finditer({Reversed(codon) : codon \in stop_codons}, text) :
        ~skipped_in_the_beginning(start)}

detect_stop_codons(text, stop_codons) ==
    {<<group(text, start), (start % 3) + 1>> : start \in forward_starts(text, stop_codons)}

detect_reverse_stop_codons(text, stop_codons) ==
    {<<Reversed(group(text, start)), -(((Len(text) - (start + 3) - 1) % 3) + 1)>> :
        start \in reverse_starts(text, stop_codons)}

\* the stop codons looked for under a genetic code
stop_codons_set(gc) == IF gc # 0 THEN Stops(gc) ELSE STOP_CODONS_SET

\* set(itertools.chain(detect_stop_codons(...), detect_reverse_stop_codons(...)))
chained_stops(text, gc) ==
    detect_stop_codons(text, stop_codons_set(gc))
        \cup detect_reverse_stop_codons(text, stop_codons_set(gc))

\* allowed_translations, with STOP_CODONS for stop_codons
allowed_translations(stops) ==
    [frame \in Frames |->
        TABLE_SET \ UNION {STOP_CODONS(st[1]) : st \in {x \in stops : x[2] = frame}}]

choose_frame(frame_to_table) ==
    LET tables(frame) == frame_to_table[frame] # {}
    IN  SelectSeq(<<-3, -2, -1, 1, 2, 3>>, tables)

\* the frames whose Counter over the reported stops is 1
disallowed_frames(stops) ==
    {frame \in Frames : Cardinality({st \in stops : st[2] = frame}) = 1}

detect_reading_frame(text, gc) ==
    LET stops == chained_stops(text, gc)
        allowed(frame) == frame \notin disallowed_frames(stops)
    IN  IF gc # 0
        THEN SelectSeq(<<1, 2, 3, -1, -2, -3>>, allowed)
        ELSE choose_frame(allowed_translations(stops))

detect_reading_combinations(text, gc) ==
    LET stops == chained_stops(text, gc)
    IN  IF gc # 0
        THEN {<<gc, frame>> : frame \in Frames \ disallowed_frames(stops)}
        ELSE UNION {{<<gc_id, frame>> : gc_id \in allowed_translations(stops)[frame]} :
                       frame \in Frames}

\* seq[start:stop] of Python, either bound negative or past the end
PySlice(text, start, stop) ==
    LET pos(i) == IF i < 0 THEN Max(i + Len(text), 0) ELSE Min(i, Len(text))
    IN  IF pos(start) < pos(stop) THEN SubSeq(text, pos(start) + 1, pos(stop)) ELSE <<>>

\* what last_codon returns for None
NoCodon == <<"None">>

\* last_codon_slice: <<start, stop>>, or <<>> for None
last_codon_slice(text, reading_frame) ==
    LET read_offset == Abs(reading_frame) - 1
        leftover == (Len(text) - read_offset) % 3
        stop == Len(text) - leftover
        start == stop - 3
    IN  IF Len(text) < read_offset + 3 THEN <<>>
        ELSE IF reading_frame < 0 THEN <<-start - 1, -stop - 1>>
        ELSE <<start, stop>>

last_codon(text, reading_frame) ==
    LET the_slice == last_codon_slice(text, reading_frame)
    IN  IF the_slice = <<>> THEN NoCodon
        ELSE PySlice(text, the_slice[1], the_slice[2])

\* filter_by_last_codons: the combinations left in reading_combinations
filter_by_last_codons(column, reading_combinations) ==
    {rc \in reading_combinations :
        \A i \in 1..Len(column) : last_codon(column[i].seq, rc[2]) \in Stops(rc[1])}

\* column_reading_combinations that keeps the combinations of the first
\* sequence only
column_reading_combinations_first(column, gc) ==
    detect_reading_combinations(column[1].seq, gc)

\* column_reading_combinations, of a column with at least one sequence
column_reading_combinations(column, gc) ==
    LET RECURSIVE intersection(_)
        intersection(i) ==
            IF i = 1 THEN detect_reading_combinations(column[1].seq, gc)
            ELSE intersection(i - 1) \cap detect_reading_combinations(column[i].seq, gc)
    IN  intersection(Len(column))

extract_frames(reading_combinations) == {rc[2] : rc \in reading_combinations}

\* mutant: a supplied frame is returned whether or not it survived
final_column_reading_frame_unchecked(column, genetic_code, reading_frame) ==
    LET reading_combinations == column_reading_combinations(column, genetic_code)
        possible_frames == extract_frames(reading_combinations)
        filtered == extract_frames(filter_by_last_codons(column, reading_combinations))
        return(frame) == [raised |-> "", frame |-> frame, args |-> {}]
        raise(exception, args) == [raised |-> exception, frame |-> 0, args |-> args]
    IN  IF Len(column) = 0 THEN raise("AmbiguousReadingFrame", {})
        ELSE IF possible_frames = {} THEN raise("NoReadingFrames", {})
        ELSE IF reading_frame = 0
        THEN IF Cardinality(possible_frames) > 1
             THEN IF filtered = {} THEN raise("NoReadingFrames", {})
                  ELSE IF Cardinality(filtered) > 1
                       THEN raise("AmbiguousReadingFrame", filtered)
                  ELSE return(CHOOSE frame \in filtered : TRUE)
             ELSE return(CHOOSE frame \in possible_frames : TRUE)
        ELSE return(reading_frame)

\* mutant: of several frames left after the last-codon filter the first is taken
final_column_reading_frame_first(column, genetic_code, reading_frame) ==
    LET reading_combinations == column_reading_combinations(column, genetic_code)
        possible_frames == extract_frames(reading_combinations)
        filtered == extract_frames(filter_by_last_codons(column, reading_combinations))
        return(frame) == [raised |-> "", frame |-> frame, args |-> {}]
        raise(exception, args) == [raised |-> exception, frame |-> 0, args |-> args]
    IN  IF Len(column) = 0 THEN raise("AmbiguousReadingFrame", {})
        ELSE IF possible_frames = {} THEN raise("NoReadingFrames", {})
        ELSE IF reading_frame = 0
        THEN IF Cardinality(possible_frames) > 1
             THEN IF filtered = {} THEN raise("NoReadingFrames", {})
                  ELSE return(CHOOSE frame \in filtered : \A other \in filtered : frame <= other)
             ELSE return(CHOOSE frame \in possible_frames : TRUE)
        ELSE IF reading_frame \notin possible_frames
             THEN raise("BadReadingFrame", {reading_frame})
        ELSE return(reading_frame)

\* final_column_reading_frame:
\* [raised |-> exception or "", frame |-> result, args |-> frames of the exception]
final_column_reading_frame(column, genetic_code, reading_frame) ==
    LET reading_combinations == column_reading_combinations(column, genetic_code)
        possible_frames == extract_frames(reading_combinations)
        filtered == extract_frames(filter_by_last_codons(column, reading_combinations))
        return(frame) == [raised |-> "", frame |-> frame, args |-> {}]
        raise(exception, args) == [raised |-> exception, frame |-> 0, args |-> args]
    IN  IF Len(column) = 0 THEN raise("AmbiguousReadingFrame", {})
        ELSE IF possible_frames = {} THEN raise("NoReadingFrames", {})
        ELSE IF reading_frame = 0
        THEN IF Cardinality(possible_frames) > 1
             THEN IF filtered = {} THEN raise("NoReadingFrames", {})
                  ELSE IF Cardinality(filtered) > 1
                       THEN raise("AmbiguousReadingFrame", filtered)
                  ELSE return(CHOOSE frame \in filtered : TRUE)
             ELSE return(CHOOSE frame \in possible_frames : TRUE)
        ELSE IF reading_frame \notin possible_frames
             THEN raise("BadReadingFrame", {reading_frame})
        ELSE return(reading_frame)

\* before the detection functions are called
IdleDetect ==
    /\ sequence = <<>>
    /\ gc_table = 0
    /\ found = [forward |-> {}, reverse |-> {}, forward_starts |-> {}, reverse_starts |-> {}]
    /\ combinations = {}
    /\ frames = <<>>
    /\ det_pc = "input"

\* the caller reads one more base of the sequence
AppendBase(b) ==
    /\ det_pc = "input"
    /\ Len(sequence) < MaxSeqLen
    /\ sequence' = Append(sequence, b)
    /\ UNCHANGED <<gc_table, found, combinations, frames, det_pc, err, notDetect>>

\* detect_reading_combinations(sequence, gc) and detect_reading_frame(sequence, gc)
Detect(gc) ==
    /\ det_pc = "input"
    /\ gc_table' = gc
    /\ found' = [forward |-> detect_stop_codons(sequence, stop_codons_set(gc)),
                 reverse |-> detect_reverse_stop_codons(sequence, stop_codons_set(gc)),
                 forward_starts |-> forward_starts(sequence, stop_codons_set(gc)),
                 reverse_starts |-> reverse_starts(sequence, stop_codons_set(gc))]
    /\ combinations' = detect_reading_combinations(sequence, gc)
    /\ frames' = detect_reading_frame(sequence, gc)
    /\ det_pc' = "detected"
    /\ UNCHANGED <<sequence, err, notDetect>>

-----------------------------------------------------------------------------
(* GeneStream.pipe and Operator.iter (model.py)                            *)
(* stream.pipe(a).pipe(b) is a chain of generators: a gene of the stream   *)
(* is [id, ops], ops naming the operators that returned it.                *)

\* what an operator returns for a gene it drops
Absent == [id |-> 0, ops |-> <<>>]

\* self(gene) for the operator `op`
Apply(op, g) == IF g.id \in drops[op] THEN Absent ELSE [g EXCEPT !.ops = Append(@, op)]

\* mutant: a.iter keeps running after a yield
after_yield_eager(op) == IF op = "a" THEN "a" ELSE "consumer"

\* a generator that yields hands control to the one iterating over it
after_yield(op) == IF op = "a" THEN "b" ELSE "consumer"

\* no stream is piped
IdlePipe ==
    /\ upstream = <<>>
    /\ drops = [op \in {"a", "b"} |-> {}]
    /\ taken = 0
    /\ events = <<>>
    /\ item = Absent
    /\ results = <<>>
    /\ asked = 0
    /\ control = "unpiped"

\* stream.pipe(a).pipe(b): GeneStream(op.iter(self)), twice
Pipe ==
    /\ control = "unpiped"
    /\ control' = "consumer"
    /\ UNCHANGED <<upstream, drops, taken, events, item, results, asked, err, notPipe>>

\* the consumer calls next() on the piped stream: b.iter runs and asks a.iter
ConsumerNext ==
    /\ control = "consumer"
    /\ asked' = asked + 1
    /\ control' = "a"
    /\ UNCHANGED <<upstream, drops, taken, events, item, results, err, notPipe>>

\* Operator.iter of a: the next gene of the stream, result = self(gene), and
\* the result yielded when it is not None
IterA ==
    /\ control = "a"
    /\ taken < Len(upstream)
    /\ taken' = taken + 1
    /\ events' = Append(events, <<"a", upstream[taken + 1].id>>)
    /\ LET result == Apply("a", upstream[taken + 1])
       IN  IF result # Absent
           THEN item' = result /\ control' = after_yield("a")
           ELSE UNCHANGED <<item, control>>
    /\ UNCHANGED <<upstream, drops, results, asked, err, notPipe>>

\* Operator.iter of b on the gene a.iter yielded
IterB ==
    /\ control = "b"
    /\ events' = Append(events, <<"b", item.id>>)
    /\ LET result == Apply("b", item)
       IN  IF result # Absent
           THEN results' = Append(results, result) /\ control' = after_yield("b")
           ELSE control' = "a" /\ UNCHANGED results
    /\ UNCHANGED <<upstream, drops, taken, item, asked, err, notPipe>>

\* the stream is exhausted: both generators return and next() raises StopIteration
IterStop ==
    /\ control = "a"
    /\ taken = Len(upstream)
    /\ control' = "stopped"
    /\ UNCHANGED <<upstream, drops, taken, events, item, results, asked, err, notPipe>>

-----------------------------------------------------------------------------
(* OpExtractCharsets (operators.py) and Charset (types.py)                 *)

\* types.Charset
Charset(name, position, length, frame, codons) ==
    [name |-> name, position |-> position, length |-> length,
     frame |-> frame, codons |-> codons]

\* Charset.position_end
position_end(charset) == charset.position + charset.length - 1

\* types.CodonSet
CodonSet(name, position, end) == [name |-> name, position |-> position, position_end |-> end]

\* the label templates of the model: '**' and a suffix
TemplateSuffix(codon) ==
    CASE codon = "**_1st" -> "_1st"
      [] codon = "**_2nd" -> "_2nd"
      [] codon = "**_3rd" -> "_3rd"
      [] codon = "**_pos1" -> "_pos1"
      [] codon = "**_pos2" -> "_pos2"
      [] codon = "**_pos3" -> "_pos3"

\* re.sub(r'\*\*', name, codon)
sub(name, codon) == name \o TemplateSuffix(codon)

\* mutant: the deque is rotated n steps to the left
rotate_left(d, n) == [i \in 1..Len(d) |-> d[((i - 1 + n) % Len(d)) + 1]]

\* deque.rotate(n): n steps to the right
rotate(d, n) == [i \in 1..Len(d) |-> d[((i - 1 - n) % Len(d)) + 1]]

\* Charset.codon_sets
codon_sets(charset) ==
    LET named == [i \in 1..Len(charset.codons) |-> sub(charset.name, charset.codons[i])]
        codons == IF charset.frame < 0
                  THEN rotate(rotate(Reversed(named), charset.length % 3),
                              (-charset.frame) - 1)
                  ELSE rotate(named, charset.frame - 1)
    IN  [offset \in 1..Len(codons) |->
            CodonSet(codons[offset], charset.position + (offset - 1), position_end(charset))]

\* no partition was written
IdlePartition == partition = <<>> /\ data_blocks = <<>>

\* a writer of partitions: charset.codon_sets() for each charset with a frame
WritePartition ==
    /\ err = ""
    /\ charsets # <<>>
    /\ partition = <<>>
    /\ data_blocks = <<>>
    /\ partition' = [i \in 1..Len(charsets) |->
                        IF charsets[i].frame # 0 THEN codon_sets(charsets[i]) ELSE <<>>]
    /\ UNCHANGED <<data_blocks, charsetVars, err, notPartition>>

\* partition_finder.write_cfg: the data blocks, each the range its text
\* 'name = position-position_end;' or 'name = position-position_end\3;' names
WriteCfg ==
    /\ err = ""
    /\ charsets # <<>>
    /\ partition = <<>>
    /\ data_blocks = <<>>
    /\ LET str(set, step) == [name |-> set.name, position |-> set.position,
                              position_end |-> set.position_end, step |-> step]
           RECURSIVE blocks(_)
           blocks(n) ==
               IF n = 0 THEN <<>>
               ELSE IF charsets[n].frame # 0
               THEN blocks(n - 1) \o [o \in 1..3 |-> str(codon_sets(charsets[n])[o], 3)]
               ELSE Append(blocks(n - 1),
                           str(CodonSet(charsets[n].name, charsets[n].position,
                                        position_end(charsets[n])), 1))
       IN  data_blocks' = blocks(Len(charsets))
    /\ UNCHANGED <<partition, charsetVars, err, notPartition>>

SeqLengths(series) == {Len(series[i].seq) : i \in 1..Len(series)}

\* utils.has_uniform_length: max == min of the lengths (NaN == NaN is false
\* for a Series without rows)
has_uniform_length(series) ==
    /\ Len(series) > 0
    /\ \A m \in SeqLengths(series), n \in SeqLengths(series) : m = n

\* mutant: the cursor moves to the last column of the gene, not past it
NextCursor_last(cur, length) == cur + length - 1

\* OpExtractCharsets.call: self.cursor += length
NextCursor(cur, length) == cur + length

\* OpExtractCharsets.__init__
IdleCharsets ==
    /\ charsets = <<>>
    /\ cursor = 1
    /\ passed = <<>>
    /\ yielded = <<>>

\* OpExtractCharsets.call
OpExtractCharsets(g) ==
    /\ err = ""
    /\ Len(passed) < MaxGenes
    /\ IF ~has_uniform_length(g.series)
       THEN /\ err' = "AssertionError"
            /\ passed' = Append(passed, g)
            /\ UNCHANGED <<charsets, cursor, yielded>>
       ELSE LET length == Len(g.series[1].seq)
                charset == Charset(g.name, cursor, length, g.reading_frame,
                                   g.codon_names)
            IN  /\ charsets' = Append(charsets, charset)
                /\ cursor' = NextCursor(cursor, length)
                /\ passed' = Append(passed, g)
                /\ yielded' = Append(yielded, g)
                /\ UNCHANGED err
    /\ UNCHANGED notCharset

-----------------------------------------------------------------------------
(* pandas DataFrame: [index: set of keys, columns: sequence of names,      *)
(* cells: (key, column) -> value]                                          *)

\* the value pandas holds for an absent cell
NaN == <<"NaN">>

ToSet(seq) == {seq[i] : i \in 1..Len(seq)}

Keys(series) == {series[i].key : i \in 1..Len(series)}

\* series.loc[key], for a series indexed by unique keys
Loc(series, key) == series[CHOOSE i \in 1..Len(series) : series[i].key = key].seq

\* pd.DataFrame(dtype=str)
EmptyFrame == [index |-> {}, columns |-> <<>>, cells |-> <<>>]

\* DataFrame.empty: true when any axis has length 0
IsEmpty(df) == df.index = {} \/ Len(df.columns) = 0

\* pd.DataFrame(series): one column named after the series
FrameOfSeries(name, series) ==
    [index |-> Keys(series), columns |-> <<name>>,
     cells |-> [c \in Keys(series) \X {name} |-> Loc(series, c[1])]]

\* df[name] as a function of the row keys
Column(df, name) == [k \in df.index |-> df.cells[<<k, name>>]]

\* df.join(series, how='outer') for a series given as (name, keys, values)
JoinOuter(df, name, keys, values) ==
    LET index == df.index \cup keys
        columns == Append(df.columns, name)
    IN  [index |-> index, columns |-> columns,
         cells |-> [c \in index \X ToSet(columns) |->
            IF c[2] = name
            THEN (IF c[1] \in keys THEN values[c[1]] ELSE NaN)
            ELSE (IF c[1] \in df.index THEN df.cells[c] ELSE NaN)]]

\* df.fillna('')
FillNa(df) ==
    [df EXCEPT !.cells = [c \in DOMAIN df.cells |->
        IF df.cells[c] = NaN THEN <<>> ELSE df.cells[c]]]

\* df.drop(name, axis=1)
DropColumn(df, name) ==
    LET keep == {i \in 1..Len(df.columns) : df.columns[i] # name}
        columns == [j \in 1..Cardinality(keep) |->
            df.columns[CHOOSE i \in keep : Cardinality({h \in keep : h < i}) = j - 1]]
    IN  [index |-> df.index, columns |-> columns,
         cells |-> [c \in df.index \X ToSet(columns) |-> df.cells[c]]]

-----------------------------------------------------------------------------
(* GeneDataFrame (model.py)                                                *)

\* GeneDataFrame.__init__
IdleFrame ==
    /\ dataframe = EmptyFrame
    /\ genes_ = <<>>
    /\ calls = <<>>

\* GeneDataFrame.genes
GeneNames == [i \in 1..Len(genes_) |-> genes_[i].name]

\* self._genes[name]
StoredGene(name) == genes_[CHOOSE i \in 1..Len(genes_) : genes_[i].name = name]

\* the metadata _concat compares
Meta(g) == <<g.genetic_code, g.reading_frame, g.codon_names, g.missing, g.gap>>

\* one add_gene call and how it ended: the gene passed, the frame before the
\* call and the gene the caller holds after it
Call(g, outcome, before, after) ==
    [gene |-> g, outcome |-> outcome, before |-> before, after |-> after]

\* GeneDataFrame._join
Join(series, name) ==
    FillNa(JoinOuter(dataframe, name, Keys(series),
                     [k \in Keys(series) |-> Loc(series, k)]))

\* mutant: the column of the gene is dropped before the index is checked
Concat_dropped(g) ==
    IF g.name \notin ToSet(dataframe.columns)
    THEN /\ calls' = Append(calls, Call(g, "KeyError", dataframe, g))
         /\ UNCHANGED <<dataframe, genes_>>
    ELSE LET existing == Column(dataframe, g.name)
         IN  IF Meta(StoredGene(g.name)) # Meta(g)
             THEN /\ calls' = Append(calls, Call(g, "BadGeneJoin", dataframe, g))
                  /\ UNCHANGED <<dataframe, genes_>>
             ELSE IF DOMAIN existing \cap Keys(g.series) # {}
             THEN /\ calls' = Append(calls, Call(g, "BadGeneJoin", dataframe, g))
                  /\ dataframe' = DropColumn(dataframe, g.name)
                  /\ UNCHANGED genes_
             ELSE LET both == [k \in DOMAIN existing \cup Keys(g.series) |->
                            IF k \in DOMAIN existing THEN existing[k]
                            ELSE Loc(g.series, k)]
                      df == DropColumn(dataframe, g.name)
                  IN  /\ dataframe' = JoinOuter(df, g.name, DOMAIN both, both)
                      /\ calls' = Append(calls, Call(g, "concatenated", dataframe, g))
                      /\ UNCHANGED genes_

\* GeneDataFrame._concat; __getitem__ reads self.dataframe[name]
Concat(g) ==
    IF g.name \notin ToSet(dataframe.columns)
    THEN /\ calls' = Append(calls, Call(g, "KeyError", dataframe, g))
         /\ UNCHANGED <<dataframe, genes_>>
    ELSE LET existing == Column(dataframe, g.name)
         IN  IF Meta(StoredGene(g.name)) # Meta(g)
             THEN /\ calls' = Append(calls, Call(g, "BadGeneJoin", dataframe, g))
                  /\ UNCHANGED <<dataframe, genes_>>
             ELSE IF DOMAIN existing \cap Keys(g.series) # {}
             THEN /\ calls' = Append(calls, Call(g, "BadGeneJoin", dataframe, g))
                  /\ UNCHANGED <<dataframe, genes_>>
             ELSE LET both == [k \in DOMAIN existing \cup Keys(g.series) |->
                            IF k \in DOMAIN existing THEN existing[k]
                            ELSE Loc(g.series, k)]
                      df == DropColumn(dataframe, g.name)
                  IN  /\ dataframe' = JoinOuter(df, g.name, DOMAIN both, both)
                      /\ calls' = Append(calls, Call(g, "concatenated", dataframe, g))
                      /\ UNCHANGED genes_

\* GeneDataFrame.add_gene
add_gene(g) ==
    /\ Len(calls) < MaxAdds
    /\ IF g.name \in ToSet(GeneNames)
       THEN Concat(g)
       ELSE LET gene_ == g                                \* gene = gene.copy()
                stored == [gene_ EXCEPT !.series = <<>>]  \* gene.series = None
            IN  /\ dataframe' = IF IsEmpty(dataframe)
                                 THEN FrameOfSeries(gene_.name, gene_.series)
                                 ELSE Join(gene_.series, gene_.name)
                /\ genes_' = Append(genes_, stored)
                /\ calls' = Append(calls, Call(g, "added", dataframe, g))
    /\ UNCHANGED <<err, notFrame>>

-----------------------------------------------------------------------------
(* _join_any (operators.py)                                                *)
(* A gene of the stream carries the names of its index levels in           *)
(* index_names; its keys are tuples of that length.  A flattened row is a  *)
(* function from column names to values.                                   *)

\* the value pandas holds for an absent key field
NaNKey == "NaN"

\* the names an index level can have
KeyFields == {"species", "voucher"}

\* sentinel = "\u0000"
Sentinel == "#"

\* guard: the names prefixed with the sentinel
guard(names) == [i \in 1..Len(names) |-> Sentinel \o names[i]]

\* guarded: the names that start with the sentinel
guarded(names) == {n \in names : \E f \in KeyFields : n = Sentinel \o f}

\* unguard / removeprefix
unguard(names) ==
    [i \in 1..Len(names) |->
        IF \E f \in KeyFields : names[i] = Sentinel \o f
        THEN CHOOSE f \in KeyFields : names[i] = Sentinel \o f
        ELSE names[i]]

\* OrderedSet.update
OrderedUpdate(oset, items) ==
    LET RECURSIVE Upd(_, _)
        Upd(acc, i) ==
            IF i > Len(items) THEN acc
            ELSE Upd(IF items[i] \in ToSet(acc) THEN acc ELSE Append(acc, items[i]), i + 1)
    IN  Upd(oset, 1)

\* OrderedSet.__and__: the keys of oset that are in other, in oset's order
OrderedAnd(oset, other) ==
    LET RECURSIVE Keep(_, _)
        Keep(acc, i) ==
            IF i > Len(oset) THEN acc
            ELSE Keep(IF oset[i] \in other THEN Append(acc, oset[i]) ELSE acc, i + 1)
    IN  Keep(<<>>, 1)

\* fold_keys: series.reset_index(keys) of the gene with its index levels
\* renamed: the frame with the guarded key columns and the gene's column
Flatten(g) ==
    LET keys == guard(g.index_names)
        columns == Append(keys, g.name)
    IN  [columns |-> columns,
         rows |-> {[c \in ToSet(columns) |->
                      IF c = g.name THEN g.series[i].seq
                      ELSE g.series[i].key[CHOOSE j \in 1..Len(keys) : keys[j] = c]] :
                   i \in 1..Len(g.series)}]

\* the columns after pd.merge: the left columns, then the right columns that
\* are not merge keys
MergedColumns(left, right, on) ==
    LET RECURSIVE Add(_, _)
        Add(acc, i) ==
            IF i > Len(right.columns) THEN acc
            ELSE Add(IF right.columns[i] \in ToSet(on) THEN acc
                     ELSE Append(acc, right.columns[i]), i + 1)
    IN  Add(left.columns, 1)

\* pd.merge(left, right, how="outer", on=on), for `on` among the columns of
\* both frames and no other column in common
MergeOuter(left, right, on) ==
    LET columns == MergedColumns(left, right, on)
        match(l, r) == \A c \in ToSet(on) : l[c] = r[c]
        blank(c) == IF c \in guarded({c}) THEN NaNKey ELSE NaN
        pair(l, r) == [c \in ToSet(columns) |->
                          IF c \in ToSet(left.columns) THEN l[c] ELSE r[c]]
        onlyLeft(l) == [c \in ToSet(columns) |->
                          IF c \in ToSet(left.columns) THEN l[c] ELSE blank(c)]
        onlyRight(r) == [c \in ToSet(columns) |->
                          IF c \in ToSet(right.columns) THEN r[c] ELSE blank(c)]
    IN  [columns |-> columns,
         rows |-> {pair(x[1], x[2]) : x \in {y \in left.rows \X right.rows : match(y[1], y[2])}}
                  \cup {onlyLeft(l) : l \in {y \in left.rows : \A r \in right.rows : ~match(y, r)}}
                  \cup {onlyRight(r) : r \in {y \in right.rows : \A l \in left.rows : ~match(l, y)}}]

\* before _join_any is called
IdleJoin ==
    /\ all_ = [columns |-> <<>>, rows |-> {}]
    /\ all_keys = <<>>
    /\ gdf = [missing |-> <<>>, gap |-> <<>>, index_names |-> <<>>]
    /\ pulled = <<>>
    /\ join_pc = "start"

\* GeneDataFrame.from_gene: the frame of the one flattened gene
from_gene(g) == Flatten(g)

\* _join_any on an empty stream: next(genes) has nothing to return
JoinEmpty ==
    /\ join_pc = "start"
    /\ err = ""
    /\ err' = "StopIteration"
    /\ UNCHANGED <<joinVars, notJoin>>

\* _join_any: gdf = GeneDataFrame.from_gene(next(genes)); all = gdf.dataframe
JoinFirst(g) ==
    /\ join_pc = "start"
    /\ err = ""
    /\ all_keys' = OrderedUpdate(all_keys, guard(g.index_names))
    /\ all_' = from_gene(g)
    /\ gdf' = [gdf EXCEPT !.missing = g.missing, !.gap = g.gap]
    /\ pulled' = Append(pulled, g)
    /\ join_pc' = "folding"
    /\ UNCHANGED <<err, notJoin>>

\* _join_any: one turn of `for gene in genes`; fold_keys has added the keys of
\* the gene to all_keys before the body of the loop runs
JoinNext(g) ==
    /\ join_pc = "folding"
    /\ err = ""
    /\ Len(pulled) < MaxJoined
    /\ LET keys == OrderedUpdate(all_keys, guard(g.index_names))
           series == Flatten(g)
           merge_keys == OrderedAnd(keys, guarded(ToSet(series.columns)))
       IN  /\ all_keys' = keys
           /\ pulled' = Append(pulled, g)
           /\ IF ToSet(merge_keys) \subseteq ToSet(all_.columns)
              THEN /\ all_' = MergeOuter(all_, series, merge_keys)
                   /\ gdf' = [gdf EXCEPT !.missing = g.missing, !.gap = g.gap]
                   /\ UNCHANGED err
              ELSE /\ err' = "KeyError"
                   /\ UNCHANGED <<all_, gdf>>
    /\ UNCHANGED <<join_pc, notJoin>>

\* _join_any after the loop: all.set_index(list(all_keys)), the index names
\* unguarded, gdf.dataframe = all
JoinFinish ==
    /\ join_pc = "folding"
    /\ err = ""
    /\ gdf' = [gdf EXCEPT !.index_names = unguard(all_keys)]
    /\ join_pc' = "joined"
    /\ UNCHANGED <<all_, all_keys, pulled, err, notJoin>>

-----------------------------------------------------------------------------
(* OpCheckValid (operators.py)                                             *)
(* A call returns [raised, result, memory]: whether InvalidGeneSeries was  *)
(* raised, the gene returned, and _memory after the call.                  *)

\* Series.index.duplicated().any()
duplicated(series) ==
    \E i, j \in 1..Len(series) : i < j /\ series[i].key = series[j].key

\* mutant: the name is remembered and never looked up
OpCheckDuplicates_unchecked(_memory, g) ==
    [raised |-> FALSE, result |-> g, memory |-> _memory \cup {g.name}]

\* OpCheckDuplicates.call
OpCheckDuplicates(_memory, g) ==
    IF g.name \in _memory
    THEN [raised |-> TRUE, result |-> g, memory |-> _memory]
    ELSE [raised |-> FALSE, result |-> g, memory |-> _memory \cup {g.name}]

\* OpCheckValid.call, for a GeneSeries that holds a pandas Series
OpCheckValid(_memory, g) ==
    IF \/ duplicated(g.series)
       \/ g.name = ""
       \/ g.missing = <<>>
       \/ g.gap = <<>>
    THEN [raised |-> TRUE, result |-> g, memory |-> _memory]
    ELSE OpCheckDuplicates(_memory, g)

\* no OpCheckValid was constructed
IdleValid == memory = {}

\* next() on stream.pipe(OpCheckValid()): Operator.iter pulls the next gene
\* of the stream and calls the operator with it; an exception ends the
\* generator
CheckedNext ==
    /\ control = "checking"
    /\ taken < Len(upstream)
    /\ asked' = asked + 1
    /\ taken' = taken + 1
    /\ LET call == OpCheckValid(memory, upstream[taken + 1])
       IN  /\ memory' = call.memory
           /\ IF call.raised
              THEN /\ err' = "InvalidGeneSeries"
                   /\ control' = "raised"
                   /\ UNCHANGED results
              ELSE /\ results' = Append(results, call.result)
                   /\ UNCHANGED <<err, control>>
    /\ UNCHANGED <<upstream, drops, events, item, notValid>>

\* next() when the stream is exhausted: StopIteration
CheckedStop ==
    /\ control = "checking"
    /\ taken = Len(upstream)
    /\ asked' = asked + 1
    /\ control' = "stopped"
    /\ UNCHANGED <<upstream, drops, taken, events, item, results, err, memory, notValid>>

\* next() on the generator that raised: it is finished, StopIteration
CheckedAfterRaise ==
    /\ control = "raised"
    /\ asked' = asked + 1
    /\ control' = "stopped"
    /\ UNCHANGED <<upstream, drops, taken, events, item, results, err, memory, notValid>>

-----------------------------------------------------------------------------
(* Operators on objects (model.py, operators.py)                           *)
(* A heap is [objects, pd_series]: the GeneSeries objects, each holding    *)
(* the id of its pandas Series in `series`, and the Series objects         *)
(* [name, rows].  An operator takes a heap and the id of the gene it is    *)
(* called with, and returns [heap, id, raised]: id 0 stands for None.      *)

\* the GeneSeries object `id` as the record a reader of its attributes sees
Deref(H, id) ==
    LET object == H.objects[id]
        s == H.pd_series[object.series]
    IN  [name |-> s.name, series |-> s.rows, genetic_code |-> object.genetic_code,
         reading_frame |-> object.reading_frame, codon_names |-> object.codon_names,
         missing |-> object.missing, gap |-> object.gap]

\* an operator returns the object `id`
Returned(H, id) == [heap |-> H, id |-> id, raised |-> ""]

\* an operator raises
Raised(H, exception) == [heap |-> H, id |-> 0, raised |-> exception]

\* mutant: copy(self) alone, the Series object stays shared
copy_shared(H, id) ==
    Returned([H EXCEPT !.objects = Append(@, H.objects[id])], Len(H.objects) + 1)

\* GeneSeries.copy: a new object with a shallow copy of the Series
copy(H, id) ==
    LET other == [H.objects[id] EXCEPT !.series = Len(H.pd_series) + 1]
    IN  Returned([objects |-> Append(H.objects, other),
                  pd_series |-> Append(H.pd_series, H.pd_series[H.objects[id].series])],
                 Len(H.objects) + 1)

\* gene.series = <the Series a pandas method returned>: a new Series object
\* with the name of the one it was computed from
SetSeries(g, rows) ==
    LET name == Deref(g.heap, g.id).name
        sid == Len(g.heap.pd_series) + 1
    IN  [g EXCEPT !.heap.pd_series = Append(@, [name |-> name, rows |-> rows]),
                  !.heap.objects[g.id].series = sid]

\* gene.series.index = <index>: the Series object gets other keys
SetIndex(g, keys) ==
    LET sid == g.heap.objects[g.id].series
    IN  [g EXCEPT !.heap.pd_series[sid].rows =
            [i \in 1..Len(@) |-> [key |-> keys[i], seq |-> @[i].seq]]]

\* setattr(gene, attr, value); `name` goes through the setter to series.name
SetAttr(g, attr, value) ==
    IF attr = "name"
    THEN [g EXCEPT !.heap.pd_series[g.heap.objects[g.id].series].name = value]
    ELSE [g EXCEPT !.heap.objects[g.id][attr] = value]

\* the rows with their sequences replaced, keys kept (Series.map, .apply, .str)
MapRows(rows, seqs) == [i \in 1..Len(rows) |-> [key |-> rows[i].key, seq |-> seqs[i]]]

\* glue.join(levels) after fillna("")
GlueJoin(glue, levels) ==
    LET filled == [i \in 1..Len(levels) |-> IF levels[i] = NaNKey THEN "" ELSE levels[i]]
        RECURSIVE join(_)
        join(n) == IF n = 1 THEN filled[1] ELSE join(n - 1) \o glue \o filled[n]
    IN  IF Len(levels) = 0 THEN "" ELSE join(Len(levels))

\* OpIndexMerge.call
OpIndexMerge(glue, H, id) ==
    LET gene_ == copy(H, id)
        rows == Deref(gene_.heap, gene_.id).series
    IN  SetIndex(gene_, [i \in 1..Len(rows) |-> <<GlueJoin(glue, rows[i].key)>>])

\* mutant: a sequence matches when one of its characters is in `empty`
fullmatch_search(empty, seq) == \E i \in 1..Len(seq) : seq[i] \in empty

\* Series.str.fullmatch("[" + empty + "]+")
fullmatch(empty, seq) == Len(seq) > 0 /\ \A i \in 1..Len(seq) : seq[i] \in empty

\* OpDropEmpty.call
OpDropEmpty(H, id) ==
    LET gene_ == copy(H, id)
        notna(row) == row.seq # NaN
        dropna == SetSeries(gene_, SelectSeq(Deref(gene_.heap, gene_.id).series, notna))
        meta == Deref(dropna.heap, dropna.id)
        empty == ToSet(meta.missing \o meta.gap)
        unmatched(row) == ~fullmatch(empty, row.seq)
        filled == IF empty # {}
                  THEN SetSeries(dropna, SelectSeq(meta.series, unmatched))
                  ELSE dropna
        nonempty(row) == Len(row.seq) > 0
        kept == SetSeries(filled, SelectSeq(Deref(filled.heap, filled.id).series, nonempty))
    IN  IF Len(Deref(kept.heap, kept.id).series) = 0
        THEN Returned(kept.heap, 0)
        ELSE kept

\* OpDropIfAllEmpty.call
OpDropIfAllEmpty(H, id) ==
    LET temp == copy(H, id)
        dropped == OpDropEmpty(temp.heap, temp.id)
    IN  IF dropped.id = 0
        THEN Returned(dropped.heap, 0)
        ELSE Returned(dropped.heap, id)

\* str.ljust / str.rjust
ljust(seq, width, fillchar) == seq \o Repeat(fillchar, Max(0, width - Len(seq)))
rjust(seq, width, fillchar) == Repeat(fillchar, Max(0, width - Len(seq))) \o seq

\* OpMakeUniform.call, configured with `padding` ("" or one character)
OpMakeUniform(padding, H, id) ==
    IF padding = ""
    THEN Returned(H, id)
    ELSE LET gene_ == copy(H, id)
             rows == Deref(gene_.heap, gene_.id).series
             filled == [i \in 1..Len(rows) |-> IF rows[i].seq = NaN THEN <<>> ELSE rows[i].seq]
             RECURSIVE longest(_)
             longest(n) == IF n = 0 THEN 0 ELSE Max(Len(filled[n]), longest(n - 1))
             max_length == longest(Len(filled))
             fillna == SetSeries(gene_, MapRows(rows, filled))
         IN  SetSeries(fillna, MapRows(rows, [i \in 1..Len(rows) |->
                 IF Deref(fillna.heap, fillna.id).reading_frame < 0
                 THEN rjust(filled[i], max_length, padding)
                 ELSE ljust(filled[i], max_length, padding)]))

\* str.translate under a mapping of characters; an absent sequence stays absent
translate(seq, translation) ==
    IF seq = NaN
    THEN NaN
    ELSE [i \in 1..Len(seq) |->
            IF seq[i] \in DOMAIN translation THEN translation[seq[i]] ELSE seq[i]]

\* OpTranslateSequences.call
OpTranslateSequences(translation, H, id) ==
    LET gene_ == copy(H, id)
        rows == Deref(gene_.heap, gene_.id).series
    IN  SetSeries(gene_, MapRows(rows, [i \in 1..Len(rows) |->
            translate(rows[i].seq, translation)]))

\* OpTranslateMissing.call, configured with `missing` ("" or one character)
OpTranslateMissing(missing, H, id) ==
    IF missing = "" \/ Deref(H, id).missing = <<>>
    THEN Returned(H, id)
    ELSE LET mapping == [char \in ToSet(Deref(H, id).missing) |-> missing]
         IN  SetAttr(OpTranslateSequences(mapping, H, id), "missing", <<missing>>)

\* OpTranslateGap.call, configured with `gap` ("" or one character)
OpTranslateGap(gap, H, id) ==
    IF gap = "" \/ Deref(H, id).gap = <<>>
    THEN Returned(H, id)
    ELSE LET mapping == [char \in ToSet(Deref(H, id).gap) |-> gap]
         IN  SetAttr(OpTranslateSequences(mapping, H, id), "gap", <<gap>>)

\* the value a translation of gene names maps a dropped gene to
None == "None"

\* OpTranslateGenes.call
OpTranslateGenes(translation, H, id) ==
    LET name == Deref(H, id).name
    IN  IF name \in DOMAIN translation
        THEN IF translation[name] = None
             THEN Returned(H, 0)
             ELSE SetAttr(copy(H, id), "name", translation[name])
        ELSE Returned(H, id)

\* str.upper / str.lower
LowerCase == <<"a", "c", "g", "t", "n">>
UpperCase == <<"A", "C", "G", "T", "N">>
upper == [i \in 1..Len(LowerCase) |-> <<LowerCase[i], UpperCase[i]>>]
lower == [i \in 1..Len(LowerCase) |-> <<UpperCase[i], LowerCase[i]>>]

\* TextCase.method applied to one sequence
CaseMethod(method, seq) ==
    [i \in 1..Len(seq) |->
        IF \E j \in 1..Len(method) : method[j][1] = seq[i]
        THEN method[CHOOSE j \in 1..Len(method) : method[j][1] = seq[i]][2]
        ELSE seq[i]]

\* OpSequenceCase.call, configured with the case "Unchanged", "Upper" or "Lower"
OpSequenceCase(case, H, id) ==
    IF case = "Unchanged"
    THEN Returned(H, id)
    ELSE LET gene_ == copy(H, id)
             rows == Deref(gene_.heap, gene_.id).series
             method == IF case = "Upper" THEN upper ELSE lower
         IN  SetSeries(gene_, MapRows(rows, [i \in 1..Len(rows) |->
                 CaseMethod(method, rows[i].seq)]))

\* OpUpdateMetadata.call; metas maps a gene name to a sequence of <<k, v>>
OpUpdateMetadata(metas, H, id) ==
    LET name == Deref(H, id).name
        items == metas[name]
        RECURSIVE set(_)
        set(n) == IF n = 0 THEN copy(H, id)
                  ELSE SetAttr(set(n - 1), items[n][1], items[n][2])
    IN  IF name \notin DOMAIN metas
        THEN Returned(H, id)
        ELSE set(Len(items))

\* The operators of the section "Operators", on objects: the copy gets the
\* attributes the operator computes from it.

\* OpReverseComplement.call
CallOpReverseComplement(H, id) ==
    LET gene_ == copy(H, id)
    IN  SetSeries(gene_, OpReverseComplement(Deref(gene_.heap, gene_.id)).series)

\* OpReverseNegativeReadingFrames.call
CallOpReverseNegativeReadingFrames(H, id) ==
    IF Deref(H, id).reading_frame >= 0
    THEN Returned(H, id)
    ELSE LET gene_ == copy(H, id)
             negated == SetAttr(gene_, "reading_frame", -Deref(gene_.heap, gene_.id).reading_frame)
         IN  CallOpReverseComplement(negated.heap, negated.id)

\* OpPadReadingFrames.call
CallOpPadReadingFrames(padding, H, id) ==
    IF Deref(H, id).reading_frame \in {0, 1, -1}
    THEN Returned(H, id)
    ELSE LET gene_ == copy(H, id)
         IN  IF padding = "" /\ Deref(gene_.heap, gene_.id).missing = <<>>
             THEN Raised(gene_.heap, "IndexError")
             ELSE LET padded == OpPadReadingFrames(padding, Deref(gene_.heap, gene_.id))
                  IN  SetAttr(SetSeries(gene_, padded.series),
                              "reading_frame", padded.reading_frame)

\* OpDetectReadingFrame.call
CallOpDetectReadingFrame(H, id) ==
    LET gene_ == copy(H, id)
        g == Deref(gene_.heap, gene_.id)
        final_reading_frame == final_column_reading_frame(g.series, g.genetic_code, g.reading_frame)
    IN  IF final_reading_frame.raised # ""
        THEN Raised(gene_.heap, final_reading_frame.raised)
        ELSE SetAttr(gene_, "reading_frame", final_reading_frame.frame)

\* no operator has been called on objects
IdleHeap ==
    /\ heap = [objects |-> <<>>, pd_series |-> <<>>]
    /\ arg = 0
    /\ arg_before = GeneSeries("", <<>>, 0, 0, DefaultMissing)
    /\ held_before = arg_before
    /\ returned = 0
    /\ applied = <<>>

\* the stream may hand its gene to another operator
CanCall == returned # 0 /\ err = "" /\ Len(applied) < MaxCalls

\* the sequences of the gene in the stream are all texts
AllText ==
    \A i \in 1..Len(Deref(heap, returned).series) : Deref(heap, returned).series[i].seq # NaN

\* Operator.iter: op is called with the gene of the stream and returns r
Called(op, r) ==
    /\ arg' = returned
    /\ arg_before' = Deref(heap, returned)
    /\ heap' = r.heap
    /\ returned' = r.id
    /\ err' = r.raised
    /\ applied' = Append(applied, op)
    /\ UNCHANGED <<held_before, notHeap>>

-----------------------------------------------------------------------------
(* Loading genetic_codes.json (codons.py)                                  *)
(* The file is [json, dict, has_tables, list, tables]: whether it parses,  *)
(* holds a dictionary with 'Genetic_code_tables', that being an array, and *)
(* the tables.  A table is [dict, fields], fields mapping the names of the *)
(* fields present to [type, len, value].                                   *)

\* _validate_genetic_code_table: the exception raised, "" for none
validate_genetic_code_table(table) ==
    LET required == <<"name", "id", "ncbieaa", "sncbieaa">>
        field_type == [name |-> "str", id |-> "int", ncbieaa |-> "str", sncbieaa |-> "str"]
        has(f) == f \in DOMAIN table.fields
    IN  IF ~table.dict THEN "ValueError"
        ELSE IF \E i \in 1..4 :
                   /\ \A j \in 1..(i - 1) :
                         has(required[j]) /\ table.fields[required[j]].type = field_type[required[j]]
                   /\ (~has(required[i]) \/ table.fields[required[i]].type # field_type[required[i]])
             THEN "ValueError"
        ELSE IF table.fields["id"].value = 0 THEN "ValueError"
        ELSE IF \E f \in {"ncbieaa", "sncbieaa"} : table.fields[f].len # 64 THEN "ValueError"
        ELSE IF has("abbr_name") /\ table.fields["abbr_name"].type # "str" THEN "ValueError"
        ELSE ""

\* _load_genetic_codes: [raised, ids], the exception raised and the ids loaded
load_genetic_codes(file) ==
    IF ~file.json THEN [raised |-> "ValueError", ids |-> {}]
    ELSE IF ~file.dict THEN [raised |-> "ValueError", ids |-> {}]
    ELSE IF ~file.has_tables THEN [raised |-> "ValueError", ids |-> {}]
    ELSE IF ~file.list THEN [raised |-> "UnboundLocalError", ids |-> {}]
    ELSE IF \E i \in 1..Len(file.tables) : validate_genetic_code_table(file.tables[i]) # ""
         THEN [raised |-> "ValueError", ids |-> {}]
    ELSE [raised |-> "", ids |-> {file.tables[i].fields["id"].value : i \in 1..Len(file.tables)}]

\* the module codons is not imported
IdleLoad ==
    /\ genetic_codes_json = [json |-> FALSE, dict |-> FALSE, has_tables |-> FALSE,
                             list |-> FALSE, tables |-> <<>>]
    /\ imported = [state |-> "unloaded", ids |-> {}]

\* import of codons: _GC_DESCRIPTIONS = _load_genetic_codes(); an exception
\* leaves the import, and model.py, which imports codons, is not imported
ImportCodons ==
    /\ imported.state = "unloaded"
    /\ LET loading == load_genetic_codes(genetic_codes_json)
       IN  /\ err' = loading.raised
           /\ imported' = [state |-> IF loading.raised = "" THEN "loaded" ELSE "failed",
                           ids |-> loading.ids]
    /\ UNCHANGED <<genetic_codes_json, notLoad>>

-----------------------------------------------------------------------------
(* Container writers (file_writers.py)                                     *)
(* A writer is the record of its parameters.  The stream it consumes is    *)
(* lazy: each turn of the loop of GeneDataFrame.from_stream pulls one gene *)
(* through the filters and op_charsets and then adds it to the frame.      *)

\* utils.sanitize, on the names of this model: a character that is not
\* allowed in a name is replaced by an underscore
sanitize(name) == IF name = "gene 1" THEN "gene_1" ELSE name

\* OpSanitizeGeneNames.call
OpSanitizeGeneNames(g) == [g EXCEPT !.name = sanitize(g.name)]

\* OpSanitizeSpeciesNames.call: every level of every key is sanitized
OpSanitizeSpeciesNames(g) ==
    [g EXCEPT !.series = [i \in 1..Len(g.series) |->
        [key |-> [level \in 1..Len(g.series[i].key) |-> sanitize(g.series[i].key[level])],
         seq |-> g.series[i].seq]]]

\* a gene as the one object of a heap of its own
HeapOf(g) ==
    Returned([objects |-> <<[series |-> 1, genetic_code |-> g.genetic_code,
                             reading_frame |-> g.reading_frame,
                             codon_names |-> g.codon_names,
                             missing |-> g.missing, gap |-> g.gap]>>,
              pd_series |-> <<[name |-> g.name, rows |-> g.series]>>], 1)

\* FileWriter.filter: the operators the stream is piped through, in order
FileWriter_filter(self) ==
    <<[op |-> "OpCheckValid", arg |-> ""]>>
    \o (IF self.translate_missing # ""
        THEN <<[op |-> "OpTranslateMissing", arg |-> self.translate_missing]>> ELSE <<>>)
    \o (IF self.translate_gap # ""
        THEN <<[op |-> "OpTranslateGap", arg |-> self.translate_gap]>> ELSE <<>>)
    \o (IF self.case # "Unchanged"
        THEN <<[op |-> "OpSequenceCase", arg |-> self.case]>> ELSE <<>>)
    \o (IF self.sanitize
        THEN <<[op |-> "OpSanitizeGeneNames", arg |-> ""], [op |-> "OpSanitizeSpeciesNames", arg |-> ""]>>
        ELSE <<>>)

\* _ContainerWriter.filter
ContainerWriter_filter(self) ==
    FileWriter_filter(self)
    \o <<[op |-> "OpIndexMerge", arg |-> "_"], [op |-> "OpMakeUniform", arg |-> self.padding]>>
    \o (IF self.adjust_frames
        THEN LET padding == IF self.translate_missing # "" THEN self.translate_missing
                            ELSE self.padding
             IN  <<[op |-> "OpReverseNegativeReadingFrames", arg |-> ""],
                   [op |-> "OpPadReadingFrames", arg |-> padding]>>
        ELSE <<>>)

\* utils.fill_empty, of a column given as a function of the row keys
fill_empty(column, filler) ==
    LET filled == [k \in DOMAIN column |-> IF column[k] = NaN THEN <<>> ELSE column[k]]
        max_length == CHOOSE n \in {Len(filled[k]) : k \in DOMAIN filled} :
                          \A k \in DOMAIN filled : Len(filled[k]) <= n
    IN  [k \in DOMAIN column |-> ljust(filled[k], max_length, filler)]

\* ''.join(row.values.astype(str)) for the row k of the frame
RowText(df, k) ==
    LET str(cell) == IF cell = NaN THEN <<"n", "a", "n">> ELSE cell
        RECURSIVE join(_)
        join(n) == IF n = 0 THEN <<>>
                   ELSE join(n - 1) \o str(df.cells[<<k, df.columns[n]>>])
    IN  join(Len(df.columns))

\* no writer was called
IdleContainer ==
    /\ params = [padding |-> "", translate_missing |-> "", translate_gap |-> "",
                 case |-> "Unchanged", sanitize |-> FALSE, adjust_frames |-> FALSE]
    /\ piped = <<>>
    /\ data = <<>>
    /\ write_pc = "idle"

\* every add_gene call so far returned
AllAdded == \A i \in 1..Len(calls) : calls[i].outcome \in {"added", "concatenated"}

\* _ContainerWriter.call, from_stream: `for gene in stream` gets the next gene
\* out of the filters
ContainerPull(g) ==
    /\ write_pc = "streaming"
    /\ err = ""
    /\ AllAdded
    /\ Len(piped) = Len(calls)
    /\ Len(piped) = Len(passed)
    /\ Len(piped) < MaxGenes
    /\ LET ops == ContainerWriter_filter(params)
           call == OpCheckValid(memory, g)
           \* Operator.iter of the k-th piped operator, called with gene r
           iter(k, r) ==
               LET op_ == ops[k].op
                   arg_ == ops[k].arg
                   gene_ == Deref(r.heap, r.id)
               IN  CASE op_ = "OpTranslateMissing" ->
                            OpTranslateMissing(arg_, r.heap, r.id)
                     [] op_ = "OpTranslateGap" -> OpTranslateGap(arg_, r.heap, r.id)
                     [] op_ = "OpSequenceCase" -> OpSequenceCase(arg_, r.heap, r.id)
                     [] op_ = "OpSanitizeGeneNames" -> HeapOf(OpSanitizeGeneNames(gene_))
                     [] op_ = "OpSanitizeSpeciesNames" ->
                            HeapOf(OpSanitizeSpeciesNames(gene_))
                     [] op_ = "OpIndexMerge" -> OpIndexMerge(arg_, r.heap, r.id)
                     [] op_ = "OpMakeUniform" -> OpMakeUniform(arg_, r.heap, r.id)
                     [] op_ = "OpReverseNegativeReadingFrames" ->
                            HeapOf(OpReverseNegativeReadingFrames(gene_))
                     [] op_ = "OpPadReadingFrames" ->
                            HeapOf(OpPadReadingFrames(arg_, gene_))
           \* GeneStream.pipe: each operator is called with what the one before
           \* it in ops yielded
           RECURSIVE stage(_)
           stage(k) == IF k = 1 THEN HeapOf(call.result)
                       ELSE CHOOSE out \in {iter(k, r) : r \in {stage(k - 1)}} : TRUE
       IN  /\ memory' = call.memory
           /\ IF call.raised
              THEN err' = "InvalidGeneSeries" /\ UNCHANGED piped
              ELSE /\ \E out \in {stage(Len(ops))} :
                         piped' = Append(piped, Deref(out.heap, out.id))
                   /\ UNCHANGED err
    /\ UNCHANGED <<params, data, write_pc, charsetVars, frameVars, notContainer>>

\* _ContainerWriter.call after the stream ended: the columns are filled, the
\* rows concatenated and handed to phylip.gene_to_path
ContainerWrite ==
    /\ write_pc = "streaming"
    /\ err = ""
    /\ AllAdded
    /\ Len(calls) > 0
    /\ Len(piped) = Len(calls)
    /\ LET joined ==
               IF params.padding # ""
               THEN [dataframe EXCEPT !.cells = [c \in DOMAIN @ |->
                        fill_empty(Column(dataframe, c[2]), params.padding)[c[1]]]]
               ELSE dataframe
       IN  /\ dataframe' = joined
           /\ data' = [k \in joined.index |-> RowText(joined, k)]
    /\ write_pc' = "written"
    /\ UNCHANGED <<params, piped, genes_, calls, err, charsetVars, validVars, notContainer>>

-----------------------------------------------------------------------------
(* Writers and their filters (file_writers.py)                             *)
(* A stream is known by the filter functions it was passed through, in     *)
(* order.  A writer is [class, filters, pc]: the class get_writer made an  *)
(* instance of, the list self.filters and where the call stands.           *)

\* the classes registered with @file_writer, by the class that defines call
WriterClasses ==
    {"_ConcatenatedWriter", "_MultiFileWriter", "_ContainerWriter", "NexusWriter",
     "TabWriter"}

\* FileWriter.apply_filters
apply_filters(filters, stream) ==
    LET RECURSIVE loop(_)
        loop(n) == IF n = 0 THEN stream ELSE Append(loop(n - 1), filters[n])
    IN  loop(Len(filters))

\* no writer was made
IdleWriter == writer = [class |-> "", filters |-> <<>>, pc |-> "idle"] /\ through = <<>>

\* writer.filters.append(custom)
AppendFilter(custom) ==
    /\ writer.pc = "ready"
    /\ Len(writer.filters) < 1 + MaxCustomFilters
    /\ writer' = [writer EXCEPT !.filters = Append(@, custom)]
    /\ UNCHANGED <<through, err, notWriter>>

\* writer(stream, path): call of the class, and for a _GeneWriter that does
\* not define call, _GeneWriter.call and then the write of the class
WriterCall ==
    /\ writer.pc = "ready"
    /\ LET stream == apply_filters(writer.filters, through)
       IN  through' = IF writer.class = "_ConcatenatedWriter"
                      THEN apply_filters(writer.filters, stream)
                      ELSE stream
    /\ writer' = [writer EXCEPT !.pc = "written"]
    /\ UNCHANGED <<err, notWriter>>

-----------------------------------------------------------------------------
(* run_pipeline (operations.py)                                            *)
(* A chunk of data is [byte, ops]: a byte of the input and the operations  *)
(* it went through.  The pipeline is [n, capacity]: the number of          *)
(* operations and the number of chunks an OS pipe holds before a write to  *)
(* it blocks.  run_pipeline runs in one thread: an operation reads from    *)
(* its infile and writes to its outfile until its infile is at its end.    *)

\* run_pipeline was not called
IdlePipeline ==
    /\ pipeline = [n |-> 0, capacity |-> 0]
    /\ source = <<>>
    /\ pipes = <<>>
    /\ sink = <<>>
    /\ current = [op |-> 0, offset |-> 0]
    /\ closed = {}
    /\ run_pc = "idle"

\* run_pipeline with an empty pipeline: shutil.copyfileobj(infile, outfile)
CopyFile ==
    /\ run_pc = "called"
    /\ pipeline.n = 0
    /\ sink' = source
    /\ current' = [current EXCEPT !.offset = Len(source)]
    /\ run_pc' = "returned"
    /\ UNCHANGED <<pipeline, source, pipes, closed, err, notPipeline>>

\* run_pipeline: the loop that makes the os.pipe() pairs
OpenPipes ==
    /\ run_pc = "called"
    /\ pipeline.n > 0
    /\ pipes' = [j \in 1..(pipeline.n - 1) |-> <<>>]
    /\ current' = [op |-> 1, offset |-> 0]
    /\ run_pc' = "running"
    /\ UNCHANGED <<pipeline, source, sink, closed, err, notPipeline>>

\* operation.apply(parameter)(infile, outfile) of the operation that runs:
\* it reads a chunk of its infile and writes one to its outfile; the write to
\* a pipe that is full blocks
Transfer ==
    /\ run_pc = "running"
    /\ LET op == current.op
           chunk == IF op = 1 THEN source[current.offset + 1] ELSE Head(pipes[op - 1])
           out == [chunk EXCEPT !.ops = Append(@, op)]
       IN  /\ IF op = 1 THEN current.offset < Len(source) ELSE pipes[op - 1] # <<>>
           /\ op < pipeline.n => Len(pipes[op]) < pipeline.capacity
           /\ current' = IF op = 1 THEN [current EXCEPT !.offset = @ + 1] ELSE current
           /\ pipes' = [j \in 1..Len(pipes) |->
                           IF j = op - 1 THEN Tail(pipes[j])
                           ELSE IF j = op THEN Append(pipes[j], out)
                           ELSE pipes[j]]
           /\ sink' = IF op = pipeline.n THEN Append(sink, out) ELSE sink
    /\ UNCHANGED <<pipeline, source, closed, run_pc, err, notPipeline>>

\* the operation that runs has read its infile to the end and returns;
\* run_pipeline closes its infile and its outfile and goes to the next one
Finish ==
    /\ run_pc = "running"
    /\ LET op == current.op
           infile == IF op = 1 THEN <<"infile", 0>> ELSE <<"r", op - 1>>
           outfile == IF op = pipeline.n THEN <<"outfile", 0>> ELSE <<"w", op>>
       IN  /\ IF op = 1 THEN current.offset = Len(source) ELSE pipes[op - 1] = <<>>
           /\ closed' = closed \cup {infile, outfile}
           /\ current' = [current EXCEPT !.op = op + 1]
           /\ run_pc' = IF op = pipeline.n THEN "returned" ELSE "running"
    /\ UNCHANGED <<pipeline, source, pipes, sink, err, notPipeline>>

-----------------------------------------------------------------------------
(* A gene built by a reader and sent through the frame operators           *)

\* characters the reader draws sequences from
OpBases == {"A", "C", "g", "t", "N"}
\* the `missing` sets the reader may attach
MissingSets == {<<"n">>, DefaultMissing}
\* the paddings OpPadReadingFrames may be configured with
Paddings == {"", "-"}

TotalBases(series) ==
    LET RECURSIVE Sum(_)
        Sum(i) == IF i = 0 THEN 0 ELSE Len(series[i].seq) + Sum(i - 1)
    IN  Sum(Len(series))

\* no gene in the pipeline
IdleGene ==
    /\ gene = GeneSeries("", <<>>, 0, 0, DefaultMissing)
    /\ prev = gene
    /\ orig = gene
    /\ detected = gene
    /\ padding_arg = ""
    /\ exc_args = {}
    /\ pc = "idle"

InitGene ==
    /\ \E rf \in ReadingFrames, missing \in MissingSets :
          gene = GeneSeries("gene1", <<>>, 0, rf, missing)
    /\ prev = gene
    /\ orig = gene
    /\ detected = gene
    /\ padding_arg = ""
    /\ exc_args = {}
    /\ pc = "input"

\* the reader adds a row to the gene
ReadRow ==
    /\ pc = "input"
    /\ Len(gene.series) < MaxRows
    /\ LET key == <<"seq" \o ToString(Len(gene.series) + 1)>>
       IN  gene' = [gene EXCEPT !.series = Append(@, [key |-> key, seq |-> <<>>])]
    /\ prev' = gene'
    /\ orig' = gene'
    /\ detected' = gene'
    /\ UNCHANGED <<padding_arg, exc_args, pc, err, notGene>>

\* the reader adds a base to the last row of the gene
ReadBase(b) ==
    /\ pc = "input"
    /\ Len(gene.series) > 0
    /\ TotalBases(gene.series) < MaxBases
    /\ gene' = [gene EXCEPT !.series[Len(gene.series)].seq = Append(@, b)]
    /\ prev' = gene'
    /\ orig' = gene'
    /\ detected' = gene'
    /\ UNCHANGED <<padding_arg, exc_args, pc, err, notGene>>

\* stream.pipe(OpReverseNegativeReadingFrames())
CallReverseNegativeReadingFrames ==
    /\ pc \in {"input", "detected"}
    /\ err = ""
    /\ prev' = gene
    /\ gene' = OpReverseNegativeReadingFrames(gene)
    /\ pc' = "reversed"
    /\ UNCHANGED <<orig, detected, padding_arg, exc_args, err, notGene>>

\* stream.pipe(OpPadReadingFrames(padding))
CallPadReadingFrames(padding) ==
    /\ pc \in {"input", "reversed"}
    /\ err = ""
    /\ prev' = gene
    /\ gene' = OpPadReadingFrames(padding, gene)
    /\ padding_arg' = padding
    /\ pc' = "padded"
    /\ UNCHANGED <<orig, detected, exc_args, err, notGene>>

\* stream.pipe(OpDetectReadingFrame()); with `unknown` the gene comes with its
\* reading frame reset to ReadingFrame.Unknown
CallDetectReadingFrame(unknown) ==
    /\ pc \in {"input", "padded"}
    /\ err = ""
    /\ LET given == IF unknown THEN [gene EXCEPT !.reading_frame = 0] ELSE gene
           final_reading_frame ==
               final_column_reading_frame(given.series, given.genetic_code, given.reading_frame)
       IN  /\ prev' = gene
           /\ IF final_reading_frame.raised = ""
              THEN /\ gene' = [given EXCEPT !.reading_frame = final_reading_frame.frame]
                   /\ UNCHANGED err
              ELSE /\ err' = final_reading_frame.raised
                   /\ UNCHANGED gene
           /\ exc_args' = final_reading_frame.args
    /\ detected' = IF pc = "input" THEN gene' ELSE detected
    /\ pc' = IF pc = "input" THEN "detected" ELSE "redetected"
    /\ UNCHANGED <<orig, padding_arg, notGene>>

NextOps ==
    \/ ReadRow
    \/ \E b \in OpBases : ReadBase(b)
    \/ CallReverseNegativeReadingFrames
    \/ \E padding \in Paddings : CallPadReadingFrames(padding)

InitOps == InitGene /\ err = "" /\ IdleCharsets /\ IdleFrame /\ IdleJoin /\ IdleDetect /\ IdlePipe /\ IdleHeap /\ IdleValid /\ IdlePartition /\ IdleLoad /\ IdleContainer /\ IdleWriter /\ IdlePipeline

SpecOps == InitOps /\ [][NextOps]_vars

-----------------------------------------------------------------------------
(* C5, C6                                                                  *)

\* the base pairing of the claim: A<->T and C<->G, in either case
WatsonCrick(ch) ==
    CASE ch = "A" -> "T" [] ch = "T" -> "A" [] ch = "C" -> "G" [] ch = "G" -> "C"
      [] ch = "a" -> "t" [] ch = "t" -> "a" [] ch = "c" -> "g" [] ch = "g" -> "c"
      [] OTHER -> ch

IsReverseComplementOf(out, in) ==
    /\ Len(out) = Len(in)
    /\ \A j \in 1..Len(in) : out[j] = WatsonCrick(in[Len(in) + 1 - j])

SameRows(g, h) ==
    /\ Len(g.series) = Len(h.series)
    /\ \A i \in 1..Len(g.series) : g.series[i].key = h.series[i].key

\* C5: OpReverseNegativeReadingFrames maps a gene with reading_frame f < 0 to
\* a gene whose every sequence is the reverse complement of the original and
\* whose reading_frame is -f; a gene with reading_frame >= 0 is returned with
\* sequences and frame unchanged.
C5_ReverseNegative ==
    pc = "reversed" =>
        IF prev.reading_frame < 0
        THEN /\ gene.reading_frame = -prev.reading_frame
             /\ gene.reading_frame > 0
             /\ SameRows(gene, prev)
             /\ \A i \in 1..Len(prev.series) :
                    IsReverseComplementOf(gene.series[i].seq, prev.series[i].seq)
             /\ [gene EXCEPT !.series = <<>>, !.reading_frame = 0]
                    = [prev EXCEPT !.series = <<>>, !.reading_frame = 0]
        ELSE gene = prev

\* a negative frame gene of two rows, one holding two different bases, reversed
C5_Witness ==
    /\ pc = "reversed"
    /\ prev.reading_frame = -2
    /\ Len(prev.series) = 2
    /\ \E i \in 1..2 : Len(prev.series[i].seq) = 2
                       /\ prev.series[i].seq[1] # prev.series[i].seq[2]
                       /\ prev.series[i].seq[1] = "A"

\* the padding character of the claim
C6_PadChar ==
    IF padding_arg # "" THEN padding_arg
    ELSE IF "?" \in {prev.missing[i] : i \in 1..Len(prev.missing)}
         THEN "?" ELSE prev.missing[1]

\* C6: OpPadReadingFrames, for |reading_frame| in {2,3}, adds exactly
\* 3 - (|reading_frame| - 1) copies of one padding character to every sequence,
\* in front for a positive frame and at the end for a negative one, and sets
\* the frame to +1 or -1 keeping the sign; frames 0, +1, -1 are unchanged.  The
\* character is the configured padding, else '?' if in missing, else missing[0].
C6_PadReadingFrames ==
    pc = "padded" =>
        IF Abs(prev.reading_frame) \in {2, 3}
        THEN LET n == 3 - (Abs(prev.reading_frame) - 1)
             IN  /\ gene.reading_frame = (IF prev.reading_frame > 0 THEN 1 ELSE -1)
                 /\ SameRows(gene, prev)
                 /\ \A i \in 1..Len(prev.series) :
                      LET in == prev.series[i].seq
                          out == gene.series[i].seq
                      IN  /\ Len(out) = Len(in) + n
                          /\ IF prev.reading_frame > 0
                             THEN /\ \A j \in 1..n : out[j] = C6_PadChar
                                  /\ \A j \in 1..Len(in) : out[n + j] = in[j]
                             ELSE /\ \A j \in 1..Len(in) : out[j] = in[j]
                                  /\ \A j \in 1..n : out[Len(in) + j] = C6_PadChar
                 /\ [gene EXCEPT !.series = <<>>, !.reading_frame = 0]
                        = [prev EXCEPT !.series = <<>>, !.reading_frame = 0]
        ELSE gene = prev

\* a gene of frame -3 whose missing set lacks '?', padded with no configured
\* padding, and holding a non-empty sequence
C6_Witness ==
    /\ pc = "padded"
    /\ prev.reading_frame = -3
    /\ padding_arg = ""
    /\ exc_args = {}
    /\ prev.missing = <<"n">>
    /\ \E i \in 1..Len(prev.series) : Len(prev.series[i].seq) = 2

-----------------------------------------------------------------------------
(* A stream of genes sent through one OpExtractCharsets                    *)

AltCodonNames == <<"**_pos1", "**_pos2", "**_pos3">>
CharsetFrames == {-2, 0, 1}

\* a column of `rows` sequences of `length` bases, the last one `extra` longer
StreamColumn(rows, length, extra) ==
    [i \in 1..rows |->
        [key |-> <<"seq" \o ToString(i)>>,
         seq |-> Repeat("A", IF i = rows /\ i > 1 THEN length + extra ELSE length)]]

\* the genes that may arrive in position i of the stream
StreamGenes(i) ==
    {[GeneSeries("gene" \o ToString(i), StreamColumn(rows, length, extra), 0, rf,
                 DefaultMissing) EXCEPT !.codon_names = codons] :
        rows \in 1..2, length \in 0..MaxGeneLen, extra \in {0, 1},
        rf \in CharsetFrames, codons \in {DefaultCodonNames, AltCodonNames}}

InitCharsets == IdleCharsets /\ err = "" /\ IdleGene /\ IdleFrame /\ IdleJoin /\ IdleDetect /\ IdlePipe /\ IdleHeap /\ IdleValid /\ IdlePartition /\ IdleLoad /\ IdleContainer /\ IdleWriter /\ IdlePipeline

NextCharsets == \E g \in StreamGenes(Len(passed) + 1) : OpExtractCharsets(g)

SpecCharsets == InitCharsets /\ [][NextCharsets]_vars

-----------------------------------------------------------------------------
(* C1                                                                      *)

\* the length of gene g: the length of its last sequence
C1_Length(g) == Len(g.series[Len(g.series)].seq)

C1_SumLengths(n) ==
    LET RECURSIVE Sum(_)
        Sum(i) == IF i = 0 THEN 0 ELSE C1_Length(passed[i]) + Sum(i - 1)
    IN  Sum(n)

\* C1: the recorded list is exactly one Charset per gene in arrival order,
\* charsets[i] = (name_i, 1 + sum of the lengths of the genes before it,
\* length_i, reading_frame_i, codon_names_i); the first position is 1, each
\* next position is the previous position_end + 1, the cursor ends at 1 + the
\* sum of all lengths, and every gene is returned unchanged (as long as no
\* gene was rejected by the equal-length validation).
C1_Charsets ==
  err = "" =>
    /\ Len(charsets) = Len(passed)
    /\ \A i \in 1..Len(passed) :
          /\ charsets[i].name = passed[i].name
          /\ charsets[i].position = 1 + C1_SumLengths(i - 1)
          /\ charsets[i].length = C1_Length(passed[i])
          /\ \A r \in 1..Len(passed[i].series) :
                Len(passed[i].series[r].seq) = charsets[i].length
          /\ charsets[i].frame = passed[i].reading_frame
          /\ charsets[i].codons = passed[i].codon_names
    /\ (Len(charsets) > 0 => charsets[1].position = 1)
    /\ \A i \in 1..(Len(charsets) - 1) :
          charsets[i + 1].position = position_end(charsets[i]) + 1
    /\ cursor = 1 + C1_SumLengths(Len(passed))
    /\ yielded = passed

\* two genes of different, non-zero lengths and frames were recorded
C1_Witness ==
    /\ err = ""
    /\ Len(charsets) = 2
    /\ charsets[1].length = 2
    /\ charsets[2].length = 1
    /\ charsets[1].frame = 0
    /\ charsets[2].frame = -2
    /\ Len(passed[1].series) = 2
    /\ cursor = 4

-----------------------------------------------------------------------------
(* Genes added to one GeneDataFrame                                        *)

FrameNames == {"gene1", "gene2"}
FrameKeys == {<<"seq1">>, <<"seq2">>}

\* the column of the n-th gene added: a sequence of n bases under each key
FrameColumn(keys, n) ==
    LET k1 == <<"seq1">>
        k2 == <<"seq2">>
        row(k) == [key |-> k, seq |-> Repeat("A", n)]
    IN  IF keys = {} THEN <<>>
        ELSE IF keys = {k1} THEN <<row(k1)>>
        ELSE IF keys = {k2} THEN <<row(k2)>>
        ELSE <<row(k1), row(k2)>>

\* the genes the n-th add_gene call may be given
FrameGenes(n) ==
    {GeneSeries(name, FrameColumn(keys, n), 0, rf, missing) :
        name \in FrameNames, keys \in SUBSET FrameKeys,
        rf \in {0, 1}, missing \in {DefaultMissing, <<"?">>}}

InitFrame == IdleFrame /\ err = "" /\ IdleGene /\ IdleCharsets /\ IdleJoin /\ IdleDetect /\ IdlePipe /\ IdleHeap /\ IdleValid /\ IdlePartition /\ IdleLoad /\ IdleContainer /\ IdleWriter /\ IdlePipeline

NextFrame == \E g \in FrameGenes(Len(calls) + 1) : add_gene(g)

SpecFrame == InitFrame /\ [][NextFrame]_vars

-----------------------------------------------------------------------------
(* C2, C3                                                                  *)

Succeeded(call) == call.outcome \in {"added", "concatenated"}

\* the names of the genes added by successful calls
C2_NamesAdded == {calls[i].gene.name : i \in {j \in 1..Len(calls) : Succeeded(calls[j])}}

\* C2: after any sequence of successful add_gene calls the set of columns
\* of the dataframe equals the set of distinct gene names added and equals the
\* names reported by GeneDataFrame.genes; no column is ever lost.
C2_ColumnsAreGenes ==
    (\A i \in 1..Len(calls) : Succeeded(calls[i])) =>
        /\ ToSet(dataframe.columns) = C2_NamesAdded
        /\ ToSet(GeneNames) = C2_NamesAdded

\* the calls before call i that put data under the name of call i
C3_Earlier(i) ==
    {j \in 1..(i - 1) : Succeeded(calls[j]) /\ calls[j].gene.name = calls[i].gene.name}

\* the keys holding data for the name of call i when it is made
C3_KeysHeld(i) == UNION {Keys(calls[j].gene.series) : j \in C3_Earlier(i)}

\* the gene first added under the name of call i
C3_First(i) == calls[CHOOSE j \in C3_Earlier(i) : \A h \in C3_Earlier(i) : j <= h].gene

\* the frame after call i
C3_After(i) == IF i = Len(calls) THEN dataframe ELSE calls[i + 1].before

\* C3: adding a gene whose name is already present succeeds if and only if
\* its metadata equal those of the gene first added under that name and its
\* keys are disjoint from the keys already holding data for that name; on
\* success the column holds the sequences of both genes under their own keys;
\* in every other case BadGeneJoin is raised.
C3_ConcatIff ==
    \A i \in 1..Len(calls) :
        C3_Earlier(i) # {} =>
            LET g == calls[i].gene
                compatible == /\ Meta(g) = Meta(C3_First(i))
                              /\ Keys(g.series) \cap C3_KeysHeld(i) = {}
            IN  /\ calls[i].outcome = "concatenated" <=> compatible
                /\ calls[i].outcome # "concatenated" => calls[i].outcome = "BadGeneJoin"
                /\ calls[i].outcome = "concatenated" =>
                      /\ \A k \in Keys(g.series) :
                            C3_After(i).cells[<<k, g.name>>] = Loc(g.series, k)
                      /\ \A j \in C3_Earlier(i) : \A k \in Keys(calls[j].gene.series) :
                            C3_After(i).cells[<<k, g.name>>] = Loc(calls[j].gene.series, k)

-----------------------------------------------------------------------------
(* A stream of genes with different key schemas folded by _join_any        *)

Species == {"x", "y"}
Vouchers == {"v1", "v2"}
Schemas == {<<"species">>, <<"species", "voucher">>}

\* the keys a gene with the given index levels can have
SchemaKeys(names) ==
    IF Len(names) = 1 THEN {<<sp>> : sp \in Species}
    ELSE {<<sp, v>> : sp \in Species, v \in Vouchers}

\* the sequence of row j of the i-th gene: told apart from every other one
JoinSeq(i, j) == Repeat(IF j = 1 THEN "A" ELSE "C", i)

\* the genes that may arrive in position i: one or two rows, unique keys
JoinGenes(i) ==
    LET gene_(names, rows) ==
            [name |-> "gene" \o ToString(i), index_names |-> names, series |-> rows,
             genetic_code |-> 0, reading_frame |-> 0,
             codon_names |-> DefaultCodonNames,
             missing |-> DefaultMissing, gap |-> DefaultGap]
    IN  UNION {
          {gene_(names, <<[key |-> k, seq |-> JoinSeq(i, 1)]>>) : k \in SchemaKeys(names)}
          \cup {gene_(names, <<[key |-> k[1], seq |-> JoinSeq(i, 1)],
                               [key |-> k[2], seq |-> JoinSeq(i, 2)]>>) :
                   k \in {p \in SchemaKeys(names) \X SchemaKeys(names) :
                             p[1] # p[2] /\ \E f \in 1..Len(names) :
                                /\ p[1][f] # p[2][f]
                                /\ p[1][f] \in {"x", "v1"}
                                /\ \A h \in 1..(f - 1) : p[1][h] = p[2][h]}}
          : names \in Schemas}

InitJoin == IdleJoin /\ err = "" /\ IdleGene /\ IdleCharsets /\ IdleFrame /\ IdleDetect /\ IdlePipe /\ IdleHeap /\ IdleValid /\ IdlePartition /\ IdleLoad /\ IdleContainer /\ IdleWriter /\ IdlePipeline

NextJoin ==
    \/ JoinEmpty
    \/ \E g \in JoinGenes(1) : JoinFirst(g)
    \/ \E g \in JoinGenes(Len(pulled) + 1) : JoinNext(g)
    \/ JoinFinish

SpecJoin == InitJoin /\ [][NextJoin]_vars

-----------------------------------------------------------------------------
(* C4                                                                      *)

\* the value row `row` of gene g has in key field f
C4_Field(g, row, f) == row.key[CHOOSE j \in 1..Len(g.index_names) : g.index_names[j] = f]

\* rows ra of gene a and rb of gene b agree on every key field both have
C4_Agree(a, ra, b, rb) ==
    \A f \in ToSet(a.index_names) \cap ToSet(b.index_names) :
        C4_Field(a, ra, f) = C4_Field(b, rb, f)

\* some row of the result holds row ra of gene a and row rb of gene b
C4_SameRow(a, ra, b, rb) ==
    \E r \in all_.rows : r[a.name] = ra.seq /\ r[b.name] = rb.seq

\* C4: for any stream of genes with possibly different key schemas folded
\* by join_any, a row of gene A and a row of gene B end up in the same row of
\* the result if and only if they agree on every key field that both schemas
\* contain, and no input row is dropped.
C4_MergeIffAgree ==
    /\ err # "KeyError"
    /\ join_pc = "joined" =>
         /\ \A i \in 1..Len(pulled) : \A ri \in ToSet(pulled[i].series) :
               \E r \in all_.rows : r[pulled[i].name] = ri.seq
         /\ \A i \in 1..Len(pulled), j \in 1..Len(pulled) :
               i # j =>
                 \A ri \in ToSet(pulled[i].series), rj \in ToSet(pulled[j].series) :
                    C4_SameRow(pulled[i], ri, pulled[j], rj)
                        <=> C4_Agree(pulled[i], ri, pulled[j], rj)

-----------------------------------------------------------------------------
(* Sequences handed to the detection functions                             *)

DetectBases == {"A", "G", "T"}

InitDetect == IdleDetect /\ err = "" /\ IdleGene /\ IdleCharsets /\ IdleFrame /\ IdleJoin /\ IdlePipe /\ IdleHeap /\ IdleValid /\ IdlePartition /\ IdleLoad /\ IdleContainer /\ IdleWriter /\ IdlePipeline

NextDetect ==
    \/ \E b \in DetectBases : AppendBase(b)
    \/ \E gc \in TABLE_SET \cup {0} : Detect(gc)

SpecDetect == InitDetect /\ [][NextDetect]_vars

-----------------------------------------------------------------------------
(* C8                                                                      *)

\* C8: for every sequence, every stop-codon set S and every f in {1, 2, 3},
\* detect_reverse_stop_codons(seq, S) reports a stop codon c in frame -f if
\* and only if detect_stop_codons(reverse_complement(seq), S) reports c in
\* frame +f.
C8_ReverseIsForwardOfComplement ==
    det_pc = "detected" =>
        \A f \in 1..3 : \A c \in stop_codons_set(gc_table) :
            <<c, -f>> \in found.reverse
                <=> <<c, f>> \in detect_stop_codons(reverse_complement(sequence),
                                                    stop_codons_set(gc_table))

-----------------------------------------------------------------------------
(* C9                                                                      *)

\* a stop codon of table gc starts at a position of frame f of the text
C9_StopInForwardFrame(text, gc, f) ==
    \E start \in 0..(Len(text) - 3) :
        /\ (start % 3) + 1 = f
        /\ IgnoreCase(SubSeq(text, start + 1, start + 3)) \in Stops(gc)

\* the sequence contains a stop codon of table gc in frame f; frame -f is
\* frame +f of the reverse complement
C9_ContainsStop(gc, f) ==
    IF f > 0 THEN C9_StopInForwardFrame(sequence, gc, f)
    ELSE C9_StopInForwardFrame(reverse_complement(sequence), gc, -f)

\* C9: for every sequence, every table T and every frame f of the six, if the
\* sequence contains no stop codon of T in frame f then (T, f) is in
\* detect_reading_combinations(sequence, Unknown) and in
\* detect_reading_combinations(sequence, T).
C9_NoStopSurvives ==
    det_pc = "detected" =>
        \A gc \in TABLE_SET : \A f \in Frames :
            (~C9_ContainsStop(gc, f) /\ gc_table \in {0, gc})
                => <<gc, f>> \in combinations

-----------------------------------------------------------------------------
(* C10                                                                     *)

\* detect_stop_codons or detect_reverse_stop_codons reported a stop codon of
\* table gc in frame f
C10_Reported(gc, f) ==
    \E st \in found.forward \cup found.reverse :
        st[2] = f /\ IgnoreCase(st[1]) \in Stops(gc)

\* C10: for every sequence, table T and frame f, if a stop codon of T is
\* reported in frame f (any number of occurrences, any number of distinct
\* stop codons) then (T, f) is absent from detect_reading_combinations both
\* with Unknown and with T supplied, and f is absent from
\* detect_reading_frame(sequence, T).
C10_StopExcludes ==
    det_pc = "detected" =>
        \A gc \in TABLE_SET : \A f \in Frames :
            C10_Reported(gc, f) =>
                /\ gc_table \in {0, gc} => <<gc, f>> \notin combinations
                /\ gc_table = gc => f \notin ToSet(frames)

-----------------------------------------------------------------------------
(* A gene detected, reversed, padded and detected again                    *)

CodingBases == {"A", "T"}

InitRoundTrip ==
    /\ \E gc \in {0, 1} :
          gene = GeneSeries("gene1", <<[key |-> <<"seq1">>, seq |-> <<>>]>>, gc, 0, DefaultMissing)
    /\ prev = gene
    /\ orig = gene
    /\ detected = gene
    /\ padding_arg = ""
    /\ exc_args = {}
    /\ pc = "input"
    /\ err = ""
    /\ IdleCharsets /\ IdleFrame /\ IdleJoin /\ IdleDetect /\ IdlePipe /\ IdleHeap /\ IdleValid /\ IdlePartition /\ IdleLoad /\ IdleContainer /\ IdleWriter /\ IdlePipeline

\* the reader adds a base to the sequence of the gene
ReadCodingBase(b) ==
    /\ pc = "input"
    /\ Len(gene.series[1].seq) < MaxCodingLen
    /\ gene' = [gene EXCEPT !.series[1].seq = Append(@, b)]
    /\ prev' = gene'
    /\ orig' = gene'
    /\ detected' = gene'
    /\ UNCHANGED <<padding_arg, exc_args, pc, err, notGene>>

NextRoundTrip ==
    \/ \E b \in CodingBases : ReadCodingBase(b)
    \/ pc = "input" /\ CallDetectReadingFrame(FALSE)
    \/ pc = "detected" /\ CallReverseNegativeReadingFrames
    \/ pc = "reversed" /\ CallPadReadingFrames("")
    \/ pc = "padded" /\ CallDetectReadingFrame(TRUE)

SpecRoundTrip == InitRoundTrip /\ [][NextRoundTrip]_vars

-----------------------------------------------------------------------------
(* C7                                                                      *)

\* C7: for every gene whose detected reading frame is a known non-zero frame
\* f, applying OpReverseNegativeReadingFrames, then OpPadReadingFrames, then
\* reading-frame detection again with the frame treated as unknown yields +1.
C7_RoundTrip ==
    (pc = "redetected" /\ detected.reading_frame # 0) =>
        (err = "" /\ gene.reading_frame = 1)

-----------------------------------------------------------------------------
(* A gene of several sequences handed to OpDetectReadingFrame              *)

FinalBases == {"A", "G", "T"}
SuppliedBases == {"A", "T"}

\* the gene as the reader starts it, with its genetic code and reading frame
InitFinalGene(codes, reading_frames) ==
    /\ \E gc \in codes, rf \in reading_frames :
          gene = GeneSeries("gene1", <<>>, gc, rf, DefaultMissing)
    /\ prev = gene
    /\ orig = gene
    /\ detected = gene
    /\ padding_arg = ""
    /\ exc_args = {}
    /\ pc = "input"
    /\ err = ""
    /\ IdleCharsets /\ IdleFrame /\ IdleJoin /\ IdleDetect /\ IdlePipe /\ IdleHeap /\ IdleValid /\ IdlePartition /\ IdleLoad /\ IdleContainer /\ IdleWriter /\ IdlePipeline

\* the reader adds a row to the gene
ReadFinalRow ==
    /\ pc = "input"
    /\ Len(gene.series) < MaxFinalRows
    /\ LET key == <<"seq" \o ToString(Len(gene.series) + 1)>>
       IN  gene' = [gene EXCEPT !.series = Append(@, [key |-> key, seq |-> <<>>])]
    /\ prev' = gene'
    /\ orig' = gene'
    /\ detected' = gene'
    /\ UNCHANGED <<padding_arg, exc_args, pc, err, notGene>>

\* the reader adds a base to the last row of the gene, of at most `most` bases
ReadFinalBase(b, most) ==
    /\ pc = "input"
    /\ Len(gene.series) > 0
    /\ TotalBases(gene.series) < most
    /\ gene' = [gene EXCEPT !.series[Len(gene.series)].seq = Append(@, b)]
    /\ prev' = gene'
    /\ orig' = gene'
    /\ detected' = gene'
    /\ UNCHANGED <<padding_arg, exc_args, pc, err, notGene>>

InitFinal == InitFinalGene(TABLE_SET \cup {0}, {0})

NextFinal ==
    \/ ReadFinalRow
    \/ \E b \in FinalBases : ReadFinalBase(b, MaxFinalBases)
    \/ pc = "input" /\ CallDetectReadingFrame(FALSE)

SpecFinal == InitFinal /\ [][NextFinal]_vars

InitSupplied == InitFinalGene({0, 1}, Frames)

NextSupplied ==
    \/ ReadFinalRow
    \/ \E b \in SuppliedBases : ReadFinalBase(b, MaxSuppliedBases)
    \/ pc = "input" /\ CallDetectReadingFrame(FALSE)

SpecSupplied == InitSupplied /\ [][NextSupplied]_vars

-----------------------------------------------------------------------------
(* C11                                                                     *)

\* the frames that survive detection in every sequence of the gene handed in
C11_Survivors == extract_frames(column_reading_combinations(prev.series, prev.genetic_code))

\* the frames that remain: the survivors, or when several survived those the
\* last-codon disambiguation keeps
C11_Remaining ==
    LET reading_combinations == column_reading_combinations(prev.series, prev.genetic_code)
    IN  IF Cardinality(extract_frames(reading_combinations)) > 1
        THEN extract_frames(filter_by_last_codons(prev.series, reading_combinations))
        ELSE extract_frames(reading_combinations)

-----------------------------------------------------------------------------
(* C12                                                                     *)

-----------------------------------------------------------------------------
(* C13                                                                     *)

\* the last complete codon of the text as read in the frame; in a negative
\* frame the text is read backwards from its end
C13_LastCodon(text, frame) ==
    IF frame > 0 THEN last_codon(text, frame) ELSE last_codon(Reversed(text), -frame)

\* the combinations whose last codon is a stop codon in every sequence
C13_Kept ==
    {rc \in column_reading_combinations(prev.series, prev.genetic_code) :
        \A i \in 1..Len(prev.series) :
            C13_LastCodon(prev.series[i].seq, rc[2]) \in Stops(rc[1])}

\* C13: when several frames survive detection and no frame was supplied,
\* disambiguation keeps exactly the (genetic code, frame) combinations whose
\* last complete codon, in every sequence of the gene as read in that frame
\* (backwards from the end for a negative frame), is a stop codon of that
\* genetic code, for negative frames as for positive ones; if exactly one
\* frame remains it is the returned frame.
C13_LastCodonFilter ==
    (/\ pc = "detected"
     /\ prev.reading_frame = 0
     /\ Len(prev.series) > 0
     /\ Cardinality(C11_Survivors) > 1) =>
        /\ filter_by_last_codons(prev.series,
              column_reading_combinations(prev.series, prev.genetic_code)) = C13_Kept
        /\ Cardinality(extract_frames(C13_Kept)) = 1 =>
              err = "" /\ gene.reading_frame \in extract_frames(C13_Kept)

-----------------------------------------------------------------------------
(* C14                                                                     *)

\* the starts of the forward matches of the stop codons looked for
C14_Matches == finditer(stop_codons_set(gc_table), sequence)

\* the starts of the matches of the reversed stop codons
C14_ReverseMatches ==
    finditer({Reversed(codon) : codon \in stop_codons_set(gc_table)}, sequence)

\* C14 as stated: for every sequence of length L, detect_stop_codons never
\* reports a match whose three bases all lie within the last 6 bases (match
\* start >= L - 6), and detect_reverse_stop_codons never reports a match whose
\* three bases all lie within the first 3 bases (match start = 0).
C14_Original ==
    det_pc = "detected" =>
        /\ \A start \in found.forward_starts : ~(start >= Len(sequence) - 6)
        /\ 0 \notin found.reverse_starts

\* C14 amended: detect_stop_codons reports a match exactly when it starts at
\* L - 6 or before (a match starting within the last 5 bases is never
\* reported, one starting at L - 6 is), and detect_reverse_stop_codons
\* reports a match exactly when it starts at 3 or after.
C14_Amended ==
    det_pc = "detected" =>
        /\ \A start \in C14_Matches :
              start \in found.forward_starts <=> start <= Len(sequence) - 6
        /\ found.forward_starts \subseteq C14_Matches
        /\ \A start \in C14_ReverseMatches :
              start \in found.reverse_starts <=> start >= 3
        /\ found.reverse_starts \subseteq C14_ReverseMatches

\* a stop codon starting at L - 6 is reported while a later one is skipped
C14_Witness ==
    /\ det_pc = "detected"
    /\ Len(sequence) - 6 \in found.forward_starts
    /\ \E start \in C14_Matches : start > Len(sequence) - 6
    /\ \E start \in C14_ReverseMatches : start < 3

-----------------------------------------------------------------------------
(* A stream piped through two operators                                    *)

InitPipe ==
    /\ \E n \in 0..MaxStream : upstream = [i \in 1..n |-> [id |-> i, ops |-> <<>>]]
    /\ drops \in [{"a", "b"} -> SUBSET (1..MaxStream)]
    /\ taken = 0
    /\ events = <<>>
    /\ item = Absent
    /\ results = <<>>
    /\ asked = 0
    /\ control = "unpiped"
    /\ err = ""
    /\ IdleGene /\ IdleCharsets /\ IdleFrame /\ IdleJoin /\ IdleDetect /\ IdleHeap /\ IdleValid /\ IdlePartition /\ IdleLoad /\ IdleContainer /\ IdleWriter /\ IdlePipeline

NextPipe == Pipe \/ ConsumerNext \/ IterA \/ IterB \/ IterStop

SpecPipe == InitPipe /\ [][NextPipe]_vars

-----------------------------------------------------------------------------
(* C15                                                                     *)

\* b(a(g)) for the first n genes of the stream, those absent left out
C15_Expected(n) ==
    LET RECURSIVE upto(_)
        upto(i) ==
            IF i = 0 THEN <<>>
            ELSE LET result == IF Apply("a", upstream[i]) = Absent THEN Absent
                               ELSE Apply("b", Apply("a", upstream[i]))
                 IN  IF result = Absent THEN upto(i - 1) ELSE Append(upto(i - 1), result)
    IN  upto(n)

\* the place of an event in the order of calls, 0 when it has not happened
C15_At(event) ==
    IF \E k \in 1..Len(events) : events[k] = event
    THEN CHOOSE k \in 1..Len(events) : events[k] = event
    ELSE 0

\* C15: s.pipe(op) yields, in upstream order, op(g) for exactly the upstream
\* genes g for which op(g) is not absent; no upstream gene is pulled and no
\* operator is applied before the piped stream is iterated; and in
\* s.pipe(a).pipe(b) operator b sees the result for gene i before operator a
\* is applied to gene i+1.
C15_LazyPipe ==
    /\ results = C15_Expected(IF control = "b" THEN taken - 1 ELSE taken)
    /\ control = "stopped" => taken = Len(upstream)
    /\ asked = 0 => (taken = 0 /\ events = <<>>)
    /\ Len(results) <= asked
    /\ \A i \in 1..Len(upstream) :
          (C15_At(<<"a", i + 1>>) # 0 /\ Apply("a", upstream[i]) # Absent) =>
              (C15_At(<<"b", i>>) # 0 /\ C15_At(<<"b", i>>) < C15_At(<<"a", i + 1>>))

\* the stream was read to its end, some gene dropped by a, some by b, some yielded
C15_Witness ==
    /\ control = "stopped"
    /\ Len(upstream) = MaxStream
    /\ Len(results) > 0
    /\ \E i \in 1..Len(upstream) : Apply("a", upstream[i]) = Absent
    /\ \E k \in 1..Len(events) : events[k][1] = "b" /\ events[k][2] \in drops["b"]

-----------------------------------------------------------------------------
(* A gene held by two consumers, one of which pipes it through operators   *)

\* index keys of two levels, the second absent in one of them
HeapKey1 == <<"s1", "v1">>
HeapKey2 == <<"s2", NaNKey>>

\* two keys that differ in both levels, with the glue character in a level
HeapKey3 == <<"s3_v", "3">>
HeapKey4 == <<"s3", "v_3">>

\* the Series the reader may produce
HeapSeries ==
    { <<>>,
      <<[key |-> HeapKey1, seq |-> <<"A", "c">>]>>,
      <<[key |-> HeapKey1, seq |-> <<"-", "N">>], [key |-> HeapKey2, seq |-> <<"g", "T">>]>>,
      <<[key |-> HeapKey1, seq |-> NaN], [key |-> HeapKey2, seq |-> <<>>]>>,
      <<[key |-> HeapKey1, seq |-> <<"?">>], [key |-> HeapKey2, seq |-> NaN]>>,
      <<[key |-> HeapKey3, seq |-> <<"A">>], [key |-> HeapKey4, seq |-> <<"C">>]>> }

HeapNames == {"a", "c"}
HeapFrames == {-2, 0, 3}
HeapMissing == {DefaultMissing, <<>>}
HeapGap == {DefaultGap, <<>>}

\* the configurations of the operators
Glues == {"_"}
UniformPaddings == {"", "-"}
MissingTo == {"", "?"}
GapTo == {"", "*"}
GeneTranslations == {[a |-> "b"], [a |-> None]}
Cases == {"Unchanged", "Upper", "Lower"}
Metas == [a |-> << <<"reading_frame", 1>>, <<"name", "b">>, <<"missing", <<"?">> >> >>]

InitHeap ==
    /\ \E name \in HeapNames, rows \in HeapSeries, reading_frame \in HeapFrames,
          missing \in HeapMissing, gap \in HeapGap :
          heap = [objects |-> <<[series |-> 1, genetic_code |-> 1,
                                 reading_frame |-> reading_frame,
                                 codon_names |-> DefaultCodonNames,
                                 missing |-> missing, gap |-> gap]>>,
                  pd_series |-> <<[name |-> name, rows |-> rows]>>]
    /\ arg = 0
    /\ arg_before = Deref(heap, 1)
    /\ held_before = Deref(heap, 1)
    /\ returned = 1
    /\ applied = <<>>

InitOperators ==
    InitHeap /\ err = "" /\ IdleGene /\ IdleCharsets /\ IdleFrame /\ IdleJoin /\ IdleDetect /\ IdlePipe
    /\ IdleValid /\ IdlePartition /\ IdleLoad /\ IdleContainer /\ IdleWriter /\ IdlePipeline

NextOperators ==
    \/ \E glue \in Glues :
          CanCall /\ Called("OpIndexMerge", OpIndexMerge(glue, heap, returned))
    \/ CanCall /\ Called("OpDropEmpty", OpDropEmpty(heap, returned))
    \/ CanCall /\ Called("OpDropIfAllEmpty", OpDropIfAllEmpty(heap, returned))
    \/ \E padding \in UniformPaddings :
          CanCall /\ Called("OpMakeUniform", OpMakeUniform(padding, heap, returned))
    \/ \E missing \in MissingTo :
          CanCall /\ Called("OpTranslateMissing", OpTranslateMissing(missing, heap, returned))
    \/ \E gap \in GapTo :
          CanCall /\ Called("OpTranslateGap", OpTranslateGap(gap, heap, returned))
    \/ \E translation \in GeneTranslations :
          CanCall /\ Called("OpTranslateGenes", OpTranslateGenes(translation, heap, returned))
    \/ \E case \in Cases :
          CanCall /\ AllText /\ Called("OpSequenceCase", OpSequenceCase(case, heap, returned))
    \/ CanCall /\ Called("OpUpdateMetadata", OpUpdateMetadata(Metas, heap, returned))
    \/ CanCall /\ AllText
          /\ Called("OpReverseComplement", CallOpReverseComplement(heap, returned))
    \/ CanCall /\ AllText
          /\ Called("OpReverseNegativeReadingFrames",
                    CallOpReverseNegativeReadingFrames(heap, returned))
    \/ \E padding \in Paddings :
          CanCall /\ AllText
          /\ Called("OpPadReadingFrames", CallOpPadReadingFrames(padding, heap, returned))
    \/ CanCall /\ AllText
          /\ Called("OpDetectReadingFrame", CallOpDetectReadingFrame(heap, returned))

SpecOperators == InitOperators /\ [][NextOperators]_vars

-----------------------------------------------------------------------------
(* C16                                                                     *)

\* C16: after an operator returns, the gene it was called with, and the gene
\* the reader produced, have the name, keys, sequences, reading_frame,
\* genetic_code, missing, gap and codon_names they had before the call
C16_InputUnchanged ==
    /\ Deref(heap, 1) = held_before
    /\ arg # 0 => Deref(heap, arg) = arg_before

\* an operator that writes to its copy was called and returned another gene
\* than the one it was given
C16_Witness ==
    /\ Len(applied) = MaxCalls
    /\ applied[Len(applied)] = "OpTranslateGenes"
    /\ returned # 0
    /\ returned # arg
    /\ Deref(heap, returned).name # arg_before.name
    /\ Deref(heap, arg) = arg_before

-----------------------------------------------------------------------------
(* C18                                                                     *)

\* the rows of the gene the last operator was called with that hold a
\* sequence with a character outside its missing and gap sets
C18_Kept ==
    LET empty == ToSet(arg_before.missing \o arg_before.gap)
        informative(row) ==
            /\ row.seq # NaN
            /\ \E i \in 1..Len(row.seq) : row.seq[i] \notin empty
    IN  SelectSeq(arg_before.series, informative)

\* C18: OpDropEmpty returns None exactly when no sequence of the gene has a
\* character outside missing and gap, and otherwise a gene with exactly the
\* rows that have one, in order, and the metadata of the input; OpDropIfAllEmpty
\* returns None in the same cases and otherwise the gene it was given
C18_DropEmpty ==
    (applied # <<>> /\ err = "") =>
        LET op == applied[Len(applied)]
        IN  /\ op \in {"OpDropEmpty", "OpDropIfAllEmpty"} =>
                   (returned = 0 <=> C18_Kept = <<>>)
            /\ (op = "OpDropEmpty" /\ returned # 0) =>
                   Deref(heap, returned) = [arg_before EXCEPT !.series = C18_Kept]
            /\ (op = "OpDropIfAllEmpty" /\ returned # 0) =>
                   /\ returned = arg
                   /\ Deref(heap, returned) = arg_before

\* OpDropEmpty returned a gene with some of the rows of a mixed gene
C18_Witness ==
    /\ applied # <<>>
    /\ applied[Len(applied)] = "OpDropEmpty"
    /\ returned # 0
    /\ Len(Deref(heap, returned).series) < Len(arg_before.series)
    /\ \E i \in 1..Len(arg_before.series) :
          /\ arg_before.series[i].seq # NaN
          /\ Len(arg_before.series[i].seq) > 0
          /\ arg_before.series[i] \notin ToSet(Deref(heap, returned).series)

-----------------------------------------------------------------------------
(* A stream of genes piped through OpCheckValid                            *)

\* the names a gene of the stream may have, "" for none
CheckedNames == {"", "a", "b"}

\* the Series of a gene of the stream: unique keys, or a key twice
UniqueKeys == <<[key |-> <<"s1">>, seq |-> <<"A">>], [key |-> <<"s2">>, seq |-> <<"C">>]>>
TwiceKey == <<[key |-> <<"s1">>, seq |-> <<"A">>], [key |-> <<"s1">>, seq |-> <<"C">>]>>

\* the genes a stream may hold: at most one attribute of a gene is wrong
CheckedGenes ==
    UNION { { GeneSeries(name, UniqueKeys, 0, 0, DefaultMissing),
              GeneSeries(name, TwiceKey, 0, 0, DefaultMissing),
              GeneSeries(name, UniqueKeys, 0, 0, <<>>),
              [GeneSeries(name, UniqueKeys, 0, 0, DefaultMissing) EXCEPT !.gap = <<>>] } :
            name \in CheckedNames }

InitValid ==
    /\ \E n \in 0..MaxStream : upstream \in [1..n -> CheckedGenes]
    /\ drops = [op \in {"a", "b"} |-> {}]
    /\ taken = 0
    /\ events = <<>>
    /\ item = Absent
    /\ results = <<>>
    /\ asked = 0
    /\ control = "checking"
    /\ memory = {}
    /\ err = ""
    /\ IdleGene /\ IdleCharsets /\ IdleFrame /\ IdleJoin /\ IdleDetect /\ IdleHeap
    /\ IdlePartition /\ IdleLoad /\ IdleContainer /\ IdleWriter /\ IdlePipeline

NextValid == CheckedNext \/ CheckedStop \/ CheckedAfterRaise

SpecValid == InitValid /\ [][NextValid]_vars

-----------------------------------------------------------------------------
(* C17                                                                     *)

\* the i-th gene of the stream has duplicate keys, an empty name, an empty
\* missing set, an empty gap set, or the name of an earlier gene
C17_Invalid(i) ==
    LET g == upstream[i]
    IN  \/ \E a, b \in 1..Len(g.series) : a # b /\ g.series[a].key = g.series[b].key
        \/ g.name = ""
        \/ g.missing = <<>>
        \/ g.gap = <<>>
        \/ \E j \in 1..(i - 1) : upstream[j].name = g.name

-----------------------------------------------------------------------------
(* A stream of genes, some sent through OpReverseNegativeReadingFrames,    *)
(* through OpExtractCharsets, and the partition written from the charsets  *)

PartitionBases == <<"A", "C", "G", "T">>

\* the genes of the stream: one sequence of `length` bases; the second gene
\* may also be the first one after OpReverseNegativeReadingFrames or after
\* OpPadReadingFrames
PartitionGenes ==
    { GeneSeries("gene", <<[key |-> <<"seq1">>,
                            seq |-> [i \in 1..length |-> PartitionBases[(i % 4) + 1]]]>>,
                 0, rf, DefaultMissing) :
        length \in 0..MaxPartitionLen, rf \in ReadingFrames }

InitPartition ==
    IdleCharsets /\ err = "" /\ IdleGene /\ IdleFrame /\ IdleJoin /\ IdleDetect /\ IdlePipe
    /\ IdleHeap /\ IdleValid /\ IdlePartition /\ IdleLoad /\ IdleContainer /\ IdleWriter /\ IdlePipeline

NextPartition ==
    \/ \E g \in PartitionGenes :
          partition = <<>> /\ data_blocks = <<>> /\ OpExtractCharsets(g)
    \/ \E g \in PartitionGenes :
          partition = <<>> /\ data_blocks = <<>>
          /\ OpExtractCharsets(OpReverseNegativeReadingFrames(g))
    \/ \E padding \in Paddings :
          partition = <<>> /\ data_blocks = <<>> /\ Len(passed) = 1 /\ err = ""
          /\ OpExtractCharsets(OpPadReadingFrames(padding, passed[1]))
    \/ WritePartition
    \/ WriteCfg

SpecPartition == InitPartition /\ [][NextPartition]_vars

-----------------------------------------------------------------------------
(* C19, C20                                                                *)

\* the codon sets written for charset n start at position, position + 1 and
\* position + 2, end at position_end, and carry the templates numbered
\* template[1..3] with the gene name in place of '**'
C19_Labelled(n, template) ==
    /\ Len(partition[n]) = 3
    /\ \A o \in 0..2 :
          /\ partition[n][o + 1].position = charsets[n].position + o
          /\ partition[n][o + 1].position_end = charsets[n].position + charsets[n].length - 1
          /\ partition[n][o + 1].name =
                 charsets[n].name \o TemplateSuffix(charsets[n].codons[template[o + 1]])
    /\ {template[o] : o \in 1..3} = {1, 2, 3}

\* for a positive frame the set at offset o carries template ((o - (f - 1)) mod 3) + 1
C19_Forward(n) ==
    charsets[n].frame \in {1, 2, 3} =>
        C19_Labelled(n, [o \in 1..3 |-> (((o - 1) - (charsets[n].frame - 1)) % 3) + 1])

\* the templates in reversed order, <<3, 2, 1>>, rotated by `steps`
C19_ReversedRotated(steps) == [o \in 1..3 |-> 3 - (((o - 1) - steps) % 3)]

\* C19 as stated: for a negative frame the templates are reversed and then
\* rotated by |f| - 1
C19_Original ==
    \A n \in 1..Len(partition) :
        /\ C19_Forward(n)
        /\ charsets[n].frame < 0 =>
               C19_Labelled(n, C19_ReversedRotated((-charsets[n].frame) - 1))

\* C19, amended: for a frame f in {1, 2, 3} codon_sets returns three CodonSets
\* that start at position, position + 1, position + 2 and end at position_end,
\* the set at offset o named by template ((o - (f - 1)) mod 3) + 1, each
\* template once; for a negative frame the templates are reversed and then
\* rotated by (length mod 3) + |f| - 1
C19_Amended ==
    \A n \in 1..Len(partition) :
        /\ C19_Forward(n)
        /\ charsets[n].frame < 0 =>
               C19_Labelled(n, C19_ReversedRotated(
                   (charsets[n].length % 3) + ((-charsets[n].frame) - 1)))

\* a partition was written for a gene of frame 2 or 3 and for a gene of a
\* negative frame whose length is not a multiple of 3
C19_Witness ==
    /\ \E n \in 1..Len(partition) : charsets[n].frame \in {2, 3} /\ charsets[n].length > 3
    /\ \E n \in 1..Len(partition) :
          /\ charsets[n].frame < -1
          /\ charsets[n].length % 3 # 0

\* the number of the template the codon set of column i (from 0) of gene n carries
C20_Label(n, i) ==
    LET codon == partition[n][(i % 3) + 1]
    IN  CHOOSE t \in 1..3 : sub(charsets[n].name, charsets[n].codons[t]) = codon.name

\* C20: when the stream held a gene of frame -k and the gene that
\* OpReverseNegativeReadingFrames makes of it, column i of the first has the
\* label of column L - 1 - i of the second
C20_StrandFlip ==
    \A a, b \in 1..Len(partition) :
        (/\ passed[a].reading_frame < 0
         /\ passed[b] = OpReverseNegativeReadingFrames(passed[a])) =>
            \A i \in 0..(charsets[a].length - 1) :
                C20_Label(a, i) = C20_Label(b, charsets[a].length - 1 - i)

-----------------------------------------------------------------------------
(* The data file loaded at import, and detection after it                  *)

\* a field of a table
StrField(len) == [type |-> "str", len |-> len, value |-> 0]
IntField(value) == [type |-> "int", len |-> 0, value |-> value]

\* a well-formed table with the id `id`
GoodTable(id) ==
    [dict |-> TRUE,
     fields |-> [name |-> StrField(8), id |-> IntField(id), ncbieaa |-> StrField(64), sncbieaa |-> StrField(64)]]

\* the tables a file may hold: well-formed, or with one defect
FileTables ==
    { GoodTable(1), GoodTable(2),
      [GoodTable(1) EXCEPT !.dict = FALSE],
      [dict |-> TRUE, fields |-> [id |-> IntField(1), ncbieaa |-> StrField(64), sncbieaa |-> StrField(64)]],
      [GoodTable(1) EXCEPT !.fields["id"] = StrField(1)],
      [GoodTable(1) EXCEPT !.fields["id"] = IntField(0)],
      [GoodTable(1) EXCEPT !.fields["sncbieaa"] = StrField(63)],
      [dict |-> TRUE,
       fields |-> [name |-> StrField(8), id |-> IntField(2), ncbieaa |-> StrField(64), sncbieaa |-> StrField(64),
                   abbr_name |-> IntField(5)]],
      [dict |-> TRUE,
       fields |-> [name |-> StrField(8), id |-> IntField(2), ncbieaa |-> StrField(64), sncbieaa |-> StrField(64),
                   abbr_name |-> StrField(3)]] }

\* the files: not JSON, not a dictionary, without the field, the field not an
\* array, or an array of tables
Files ==
    { [json |-> FALSE, dict |-> FALSE, has_tables |-> FALSE, list |-> FALSE, tables |-> <<>>],
      [json |-> TRUE, dict |-> FALSE, has_tables |-> FALSE, list |-> FALSE, tables |-> <<>>],
      [json |-> TRUE, dict |-> TRUE, has_tables |-> FALSE, list |-> FALSE, tables |-> <<>>],
      [json |-> TRUE, dict |-> TRUE, has_tables |-> TRUE, list |-> FALSE, tables |-> <<>>] }
    \cup UNION { { [json |-> TRUE, dict |-> TRUE, has_tables |-> TRUE, list |-> TRUE,
                     tables |-> tables] : tables \in [1..n -> FileTables] } : n \in 0..MaxTables }

InitLoad ==
    /\ genetic_codes_json \in Files
    /\ imported = [state |-> "unloaded", ids |-> {}]
    /\ err = ""
    /\ IdleGene /\ IdleCharsets /\ IdleFrame /\ IdleJoin /\ IdleDetect /\ IdlePipe
    /\ IdleHeap /\ IdleValid /\ IdlePartition /\ IdleContainer /\ IdleWriter /\ IdlePipeline

\* detection runs in a process that imported codons with the tables of the model
NextLoad ==
    \/ ImportCodons
    \/ \E b \in DetectBases :
          imported.state = "loaded" /\ imported.ids = TABLE_SET
          /\ Len(sequence) < MaxLoadedLen /\ AppendBase(b)
    \/ \E gc \in TABLE_SET \cup {0} :
          imported.state = "loaded" /\ imported.ids = TABLE_SET /\ Detect(gc)

SpecLoad == InitLoad /\ [][NextLoad]_vars

-----------------------------------------------------------------------------
(* C21                                                                     *)

\* the data file is malformed: it does not parse, or lacks an array
\* 'Genetic_code_tables' of well-formed tables
C21_Malformed ==
    \/ ~genetic_codes_json.json
    \/ ~genetic_codes_json.dict
    \/ ~genetic_codes_json.has_tables
    \/ ~genetic_codes_json.list
    \/ \E i \in 1..Len(genetic_codes_json.tables) :
          validate_genetic_code_table(genetic_codes_json.tables[i]) # ""

\* C21: with a malformed data file the import does not fail: no exception is
\* raised and the module is loaded, without tables
C21_MalformedTolerated ==
    (C21_Malformed /\ imported.state # "unloaded") =>
        /\ err = ""
        /\ imported = [state |-> "loaded", ids |-> {}]

-----------------------------------------------------------------------------
(* C22                                                                     *)

\* the tagged key fields of the genes pulled so far
C22_Seen == UNION {ToSet(guard(pulled[j].index_names)) : j \in 1..Len(pulled)}

\* C22: when a gene after the first is merged, the accumulator becomes its
\* outer merge with the gene on the tagged key fields that the earlier genes
\* and this gene have in common, so a field the gene brings for the first
\* time is not a merge key and no exception is raised; after the fold the
\* result is keyed by all the key fields seen, untagged, the taxon field first
C22_MergeKey ==
    [][/\ (join_pc = "folding" /\ pulled' # pulled) =>
           LET g == pulled'[Len(pulled')]
               shared == C22_Seen \cap ToSet(guard(g.index_names))
           IN  /\ err' = ""
               /\ all_' = MergeOuter(all_, Flatten(g), OrderedAnd(all_keys, shared))
       /\ (join_pc = "folding" /\ join_pc' = "joined") =>
           /\ ToSet(gdf'.index_names) =
                  UNION {ToSet(pulled[j].index_names) : j \in 1..Len(pulled)}
           /\ Len(gdf'.index_names) = Cardinality(ToSet(gdf'.index_names))
           /\ gdf'.index_names[1] = "species"]_vars

-----------------------------------------------------------------------------
(* C23                                                                     *)

\* every pair of a genetic code and a reading frame
C23_Combinations == (TABLE_SET \cup {0}) \X Frames

-----------------------------------------------------------------------------
(* A stream written by a container writer                                  *)

\* the Series of the genes of the stream: keys of one level
ContainerSeries ==
    { <<[key |-> <<"s1">>, seq |-> <<"A">>]>>,
      <<[key |-> <<"s2">>, seq |-> <<"A", "C">>]>>,
      <<[key |-> <<"s1">>, seq |-> <<"A", "N">>], [key |-> <<"s2">>, seq |-> <<"C">>]>> }

ContainerNames == {"gene 1", "gene_1", "gene2"}
ContainerFrames == {0, 2, -2}

ContainerGenes ==
    {GeneSeries(name, series, 1, reading_frame, DefaultMissing) :
        name \in ContainerNames, series \in ContainerSeries,
        reading_frame \in ContainerFrames}

\* _ContainerWriter.__init__ and the parameters the caller may set
InitContainer ==
    /\ \E sanitize_ \in BOOLEAN, adjust_frames \in BOOLEAN :
          params = [padding |-> "-", translate_missing |-> "?", translate_gap |-> "-",
                    case |-> "Unchanged", sanitize |-> sanitize_,
                    adjust_frames |-> adjust_frames]
    /\ piped = <<>>
    /\ data = <<>>
    /\ write_pc = "streaming"
    /\ err = ""
    /\ IdleGene /\ IdleCharsets /\ IdleFrame /\ IdleJoin /\ IdleDetect /\ IdlePipe
    /\ IdleHeap /\ IdleValid /\ IdlePartition /\ IdleLoad /\ IdleWriter /\ IdlePipeline

NextContainer ==
    \/ \E g \in ContainerGenes : ContainerPull(g)
    \/ write_pc = "streaming" /\ Len(passed) < Len(piped)
       /\ OpExtractCharsets(piped[Len(piped)])
    \/ write_pc = "streaming" /\ Len(calls) < Len(yielded)
       /\ add_gene(yielded[Len(yielded)])
    \/ ContainerWrite

SpecContainer == InitContainer /\ [][NextContainer]_vars

-----------------------------------------------------------------------------
(* C24                                                                     *)

\* C24: when a container writer with a non-empty padding has written a
\* stream, there is one recorded charset per gene column of the concatenated
\* table, the charsets are in the order of the columns, and every
\* concatenated row is as long as the final cursor minus 1, whatever the names
\* of the genes before and after sanitization.
C24_CharsetsDescribeAlignment ==
    (write_pc = "written" /\ params.padding # "") =>
        /\ Len(charsets) = Len(dataframe.columns)
        /\ \A i \in 1..Len(charsets) : charsets[i].name = dataframe.columns[i]
        /\ \A k \in DOMAIN data : Len(data[k]) = cursor - 1

-----------------------------------------------------------------------------
(* C25                                                                     *)

\* the columns a data block names
C25_Columns(block) ==
    {c \in block.position..block.position_end : (c - block.position) % block.step = 0}

\* C25: when write_cfg has written the charsets of genes of length 1 or more,
\* every column from 1 to cursor - 1 is in exactly one of the ranges written
\* and every range written is non-empty: its start is not greater than its
\* end.
C25_RangesPartition ==
    (data_blocks # <<>> /\ \A n \in 1..Len(charsets) : charsets[n].length >= 1) =>
        /\ \A c \in 1..(cursor - 1) :
              Cardinality({b \in 1..Len(data_blocks) : c \in C25_Columns(data_blocks[b])}) = 1
        /\ \A b \in 1..Len(data_blocks) :
              data_blocks[b].position <= data_blocks[b].position_end

-----------------------------------------------------------------------------
(* C26                                                                     *)

\* the number of characters OpPadReadingFrames puts in front of the sequences
\* of gene g
C26_Prepended(g) ==
    IF g.reading_frame > 1 THEN PadLengths(g.reading_frame) ELSE 0

\* C26: when the stream held a gene of a non-zero frame and the gene that
\* OpPadReadingFrames makes of it, every base of the first has in the
\* partition the codon-position label that the same base, moved by the
\* number of characters put in front, has in the second
C26_PadKeepsLabels ==
    \A a, b \in 1..Len(partition), padding \in Paddings :
        (/\ passed[a].reading_frame # 0
         /\ passed[b] = OpPadReadingFrames(padding, passed[a])) =>
            \A i \in 0..(charsets[a].length - 1) :
                C20_Label(a, i) = C20_Label(b, i + C26_Prepended(passed[a]))

-----------------------------------------------------------------------------
(* C27                                                                     *)

\* the genes of FrameGenes(n) that have no reading frame
UnframedGenes(n) == {g \in FrameGenes(n) : g.reading_frame = 0}

NextUnframed == \E g \in UnframedGenes(Len(calls) + 1) : add_gene(g)

SpecUnframed == InitFrame /\ [][NextUnframed]_vars

-----------------------------------------------------------------------------
(* C28                                                                     *)

\* C28: when OpIndexMerge was called with a gene whose composite keys are
\* pairwise distinct, the flat keys of the gene it returns are pairwise
\* distinct, and the gene has one row for each row of the input, in order,
\* with the same sequence
C28_MergedKeysUnique ==
    (/\ applied # <<>>
     /\ applied[Len(applied)] = "OpIndexMerge"
     /\ ~duplicated(arg_before.series)) =>
        LET merged == Deref(heap, returned).series
        IN  /\ ~duplicated(merged)
            /\ Len(merged) = Len(arg_before.series)
            /\ \A i \in 1..Len(merged) : merged[i].seq = arg_before.series[i].seq

-----------------------------------------------------------------------------
(* A writer with custom filters, called once                               *)

\* the custom filter functions a caller may append
CustomFilters == {"custom_a", "custom_b", "custom_c"}

\* get_writer(type, format): FileWriter.__init__ sets filters to [self.filter]
InitWriter ==
    /\ \E class \in WriterClasses :
          writer = [class |-> class, filters |-> <<"filter">>, pc |-> "ready"]
    /\ through = <<>>
    /\ err = ""
    /\ IdleGene /\ IdleCharsets /\ IdleFrame /\ IdleJoin /\ IdleDetect /\ IdlePipe
    /\ IdleHeap /\ IdleValid /\ IdlePartition /\ IdleLoad /\ IdleContainer
    /\ IdlePipeline

NextWriter ==
    \/ \E custom \in CustomFilters : AppendFilter(custom)
    \/ WriterCall

SpecWriter == InitWriter /\ [][NextWriter]_vars

-----------------------------------------------------------------------------
(* C29                                                                     *)

\* C29: after one call of a writer of any class, the stream has been passed
\* through each function of writer.filters exactly once, in the order of the
\* list
C29_FiltersOnce ==
    writer.pc = "written" => through = writer.filters

-----------------------------------------------------------------------------
(* A call of run_pipeline                                                  *)

PipelineBytes == {"a", "b"}

\* the input files of the model
PipelineInputs ==
    UNION {[1..len -> {[byte |-> b, ops |-> <<>>] : b \in PipelineBytes}] :
              len \in 0..MaxInput}

\* run_pipeline(infile, outfile, pipeline) is called
InitPipeline ==
    /\ \E n \in 0..MaxOperations, capacity \in 1..MaxCapacity :
          pipeline = [n |-> n, capacity |-> capacity]
    /\ source \in PipelineInputs
    /\ pipes = <<>>
    /\ sink = <<>>
    /\ current = [op |-> 0, offset |-> 0]
    /\ closed = {}
    /\ run_pc = "called"
    /\ err = ""
    /\ IdleGene /\ IdleCharsets /\ IdleFrame /\ IdleJoin /\ IdleDetect /\ IdlePipe
    /\ IdleHeap /\ IdleValid /\ IdlePartition /\ IdleLoad /\ IdleContainer /\ IdleWriter

NextPipeline ==
    \/ CopyFile
    \/ OpenPipes
    \/ Transfer
    \/ Finish

\* the one thread of run_pipeline goes on as long as it can
SpecPipeline == InitPipeline /\ [][NextPipeline]_vars /\ WF_vars(NextPipeline)

-----------------------------------------------------------------------------
(* C30                                                                     *)

\* what the output file holds when every operation ran once, in order, on
\* everything the one before it wrote
C30_Output ==
    [i \in 1..Len(source) |->
        [byte |-> source[i].byte, ops |-> [k \in 1..pipeline.n |-> k]]]

\* the two ends of every pipe between two operations
C30_Intermediate ==
    {<<"r", j>> : j \in 1..(pipeline.n - 1)} \cup {<<"w", j>> : j \in 1..(pipeline.n - 1)}

\* C30: run_pipeline returns for every pipeline and every input; it has then
\* copied the input unchanged when the pipeline is empty, and otherwise every
\* operation has run once, in order, on all that the operation before it
\* wrote, and every intermediate file is closed
C30_Terminates ==
    <>(/\ run_pc = "returned"
       /\ sink = C30_Output
       /\ pipeline.n > 0 => C30_Intermediate \subseteq closed)

=============================================================================
